---- MODULE Spec2Model ----
(***************************************************************************)
(* A model of the Flattrade market-data service: the vendor session client *)
(* (flattrade_client.py), the resolution and ingestion service             *)
(* (stock_data/services.py), the relational schema (stock_data/models.py)  *)
(* and the request handlers (stock_data/views.py).                         *)
(*                                                                         *)
(* Text is modelled as a sequence of one-character strings, so that the    *)
(* substring, suffix, case and number conversions of the code are computed *)
(* and not assumed.  The vendor is the environment: every vendor call      *)
(* returns a value drawn from a small set of response shapes, or raises.   *)
(***************************************************************************)
EXTENDS Integers, Sequences, FiniteSets, Bags, TLC

VARIABLES Stock, Index, LiveQuote, IndexQuote, OHLCData, IndexOHLCData,
          UserSession, is_connected, cache, now, last, threads, _service_instance

vars == <<Stock, Index, LiveQuote, IndexQuote, OHLCData, IndexOHLCData,
          UserSession, is_connected, cache, now, last, threads,
          _service_instance>>

(***************************************************************************)
(* Text                                                                    *)
(***************************************************************************)
UpperChars == <<"A", "B", "C", "D", "E", "F", "G", "H", "I", "J", "K", "L", "M",
                "N", "O", "P", "Q", "R", "S", "T", "U", "V", "W", "X", "Y", "Z">>

LowerChars == <<"a", "b", "c", "d", "e", "f", "g", "h", "i", "j", "k", "l", "m",
                "n", "o", "p", "q", "r", "s", "t", "u", "v", "w", "x", "y", "z">>

DigitChars == <<"0", "1", "2", "3", "4", "5", "6", "7", "8", "9">>

IsUpperChar(c) == \E i \in 1..Len(UpperChars) : UpperChars[i] = c

IsLowerChar(c) == \E i \in 1..Len(LowerChars) : LowerChars[i] = c

IsDigitChar(c) == \E i \in 1..Len(DigitChars) : DigitChars[i] = c

LowerChar(c) ==
    IF IsUpperChar(c)
    THEN LowerChars[CHOOSE i \in 1..Len(UpperChars) : UpperChars[i] = c]
    ELSE c

UpperChar(c) ==
    IF IsLowerChar(c)
    THEN UpperChars[CHOOSE i \in 1..Len(LowerChars) : LowerChars[i] = c]
    ELSE c

\* str.lower()
lower(s) == [i \in 1..Len(s) |-> LowerChar(s[i])]

\* str.upper()
upper(s) == [i \in 1..Len(s) |-> UpperChar(s[i])]

\* str.title(): a cased character that follows an uncased one is upper-cased,
\* every other cased character is lower-cased.
title(s) ==
    [i \in 1..Len(s) |->
        IF i = 1 \/ ~(IsUpperChar(s[i - 1]) \/ IsLowerChar(s[i - 1]))
        THEN UpperChar(s[i])
        ELSE LowerChar(s[i])]

\* str.replace(old, new) for a one-character old and new
replace_char(s, old, new) == [i \in 1..Len(s) |-> IF s[i] = old THEN new ELSE s[i]]

\* the Python test `needle in hay` on two strings
contains(hay, needle) ==
    \E i \in 0..(Len(hay) - Len(needle)) :
        \A j \in 1..Len(needle) : hay[i + j] = needle[j]

\* str.endswith(suffix)
endswith(s, suffix) ==
    /\ Len(s) >= Len(suffix)
    /\ \A j \in 1..Len(suffix) : s[Len(s) - Len(suffix) + j] = suffix[j]

\* str.isdigit()
isdigit(s) == Len(s) > 0 /\ \A i \in 1..Len(s) : IsDigitChar(s[i])

\* dict.get(key, default)
Get(d, key, default) == IF key \in DOMAIN d THEN d[key] ELSE default

\* d[key] = value on a dict
Put(d, key, value) ==
    [k \in DOMAIN d \cup {key} |-> IF k = key THEN value ELSE d[k]]

\* the value v under a name: Op(v), with v computed once
With(v, Op(_)) == Op(v)

(***************************************************************************)
(* Number conversions: Decimal(str(x)) and int(x) on vendor field values.  *)
(* A converted Decimal is the pair units / 10^scale without trailing       *)
(* fractional zeros, so that two Decimals are equal exactly when the       *)
(* numbers are.                                                            *)
(***************************************************************************)
DigitVal(c) == (CHOOSE i \in 1..Len(DigitChars) : DigitChars[i] = c) - 1

RECURSIVE DigitsVal(_)
DigitsVal(s) ==
    IF Len(s) = 0 THEN 0
    ELSE 10 * DigitsVal(SubSeq(s, 1, Len(s) - 1)) + DigitVal(s[Len(s)])

RECURSIVE Normalize(_, _)
Normalize(units, scale) ==
    IF scale > 0 /\ units % 10 = 0
    THEN Normalize(units \div 10, scale - 1)
    ELSE [ok |-> TRUE, units |-> units, scale |-> scale]

Invalid == [ok |-> FALSE, units |-> 0, scale |-> 0]

Zero == [ok |-> TRUE, units |-> 0, scale |-> 0]

\* Decimal(str(x)): an optional sign, digits with at most one point and at
\* least one digit; anything else raises decimal.InvalidOperation.
DecimalOf(s) ==
    LET neg  == Len(s) > 0 /\ s[1] = "-"
        body == IF Len(s) > 0 /\ s[1] \in {"-", "+"} THEN Tail(s) ELSE s
        dots == {i \in 1..Len(body) : body[i] = "."}
        ip   == IF dots = {} THEN body
                ELSE SubSeq(body, 1, (CHOOSE i \in dots : TRUE) - 1)
        fp   == IF dots = {} THEN <<>>
                ELSE SubSeq(body, (CHOOSE i \in dots : TRUE) + 1, Len(body))
        mag  == Normalize(DigitsVal(ip \o fp), Len(fp))
    IN  IF /\ Cardinality(dots) <= 1
           /\ Len(ip) + Len(fp) >= 1
           /\ \A i \in 1..Len(ip) : IsDigitChar(ip[i])
           /\ \A i \in 1..Len(fp) : IsDigitChar(fp[i])
        THEN [mag EXCEPT !.units = IF neg THEN 0 - mag.units ELSE mag.units]
        ELSE Invalid

\* int(x) on a string: an optional sign and at least one digit; anything
\* else raises ValueError.
IntOf(s) ==
    LET neg  == Len(s) > 0 /\ s[1] = "-"
        body == IF Len(s) > 0 /\ s[1] \in {"-", "+"} THEN Tail(s) ELSE s
    IN  IF isdigit(body)
        THEN [ok |-> TRUE, val |-> IF neg THEN 0 - DigitsVal(body) ELSE DigitsVal(body)]
        ELSE [ok |-> FALSE, val |-> 0]

\* Decimal(str(d.get(key, 0)))
DecimalField(d, key) == IF key \in DOMAIN d THEN DecimalOf(d[key]) ELSE Zero

\* int(d.get(key, 0))
IntField(d, key) == IF key \in DOMAIN d THEN IntOf(d[key]) ELSE [ok |-> TRUE, val |-> 0]

\* 10 to the power n
RECURSIVE Pow10(_)
Pow10(n) == IF n = 0 THEN 1 ELSE 10 * Pow10(n - 1)

Abs(n) == IF n < 0 THEN 0 - n ELSE n

\* the number of decimal digits of n >= 0
RECURSIVE NumDigits(_)
NumDigits(n) == IF n < 10 THEN 1 ELSE 1 + NumDigits(n \div 10)

\* round-half-even of the integer quotient n / d, for d > 0
RoundHalfEven(n, d) ==
    With(Abs(n) \div d,
         LAMBDA q :
           With(IF 2 * (Abs(n) % d) > d \/ (2 * (Abs(n) % d) = d /\ q % 2 = 1)
                THEN q + 1 ELSE q,
                LAMBDA r : IF n < 0 THEN 0 - r ELSE r))

\* what a DecimalField(max_digits, decimal_places) stores for a Decimal: the
\* value quantized to decimal_places; decimal.InvalidOperation when the
\* quantized value has more than max_digits digits
Quantized(dec, max_digits, decimal_places) ==
    With(IF dec.scale <= decimal_places
         THEN dec.units * Pow10(decimal_places - dec.scale)
         ELSE RoundHalfEven(dec.units, Pow10(dec.scale - decimal_places)),
         LAMBDA u :
           IF ~dec.ok \/ NumDigits(Abs(u)) > max_digits THEN Invalid
           ELSE Normalize(u, decimal_places))

(***************************************************************************)
(* datetime.strptime(s, '%d-%m-%Y %H:%M:%S')                               *)
(***************************************************************************)
\* the digits s starts with, at most n of them
RECURSIVE LeadingDigits(_, _)
LeadingDigits(s, n) ==
    IF n = 0 \/ s = <<>> THEN <<>>
    ELSE IF ~IsDigitChar(Head(s)) THEN <<>>
    ELSE <<Head(s)>> \o LeadingDigits(Tail(s), n - 1)

\* s without the spaces it starts with
RECURSIVE SkipSpaces(_)
SkipSpaces(s) ==
    IF s # <<>> /\ Head(s) = " " THEN SkipSpaces(Tail(s)) ELSE s

\* the directives of the format with the text that follows each: the most
\* digits the directive takes, the fewest, and the separator
TIME_FORMAT ==
    << [most |-> 2, fewest |-> 1, sep |-> "-"], [most |-> 2, fewest |-> 1, sep |-> "-"],
       [most |-> 4, fewest |-> 4, sep |-> " "], [most |-> 2, fewest |-> 1, sep |-> ":"],
       [most |-> 2, fewest |-> 1, sep |-> ":"], [most |-> 2, fewest |-> 1, sep |-> ""] >>

NoTime == [ok |-> FALSE, year |-> 0, month |-> 0, day |-> 0, hour |-> 0, minute |-> 0,
           second |-> 0]

\* the text after the separator, <<"!">> when the separator is not there
\* (a space in the format stands for any run of spaces)
AfterSeparator(s, sep) ==
    IF sep = "" THEN s
    ELSE IF s = <<>> \/ Head(s) # sep THEN <<"!">>
    ELSE IF sep = " " THEN SkipSpaces(s) ELSE Tail(s)

\* the numbers of the six directives, read from position i of the format
\* on; <<>> when the text does not match
RECURSIVE ScanFields(_, _, _)
ScanFields(s, i, acc) ==
    IF i > Len(TIME_FORMAT) THEN (IF s = <<>> THEN acc ELSE <<>>)
    ELSE With(LeadingDigits(s, TIME_FORMAT[i].most),
              LAMBDA ds :
                IF Len(ds) < TIME_FORMAT[i].fewest THEN <<>>
                ELSE With(AfterSeparator(SubSeq(s, Len(ds) + 1, Len(s)), TIME_FORMAT[i].sep),
                          LAMBDA rest :
                            IF rest = <<"!">> THEN <<>>
                            ELSE ScanFields(rest, i + 1, Append(acc, DigitsVal(ds)))))

IsLeapYear(y) == y % 4 = 0 /\ (y % 100 # 0 \/ y % 400 = 0)

DaysInMonth(y, m) ==
    IF m = 2 THEN (IF IsLeapYear(y) THEN 29 ELSE 28)
    ELSE IF m \in {4, 6, 9, 11} THEN 30 ELSE 31

\* datetime.strptime: the moment the text names; ValueError (ok FALSE) when
\* the text does not match the format or names no moment of the calendar
strptime(s) ==
    With(ScanFields(s, 1, <<>>),
         LAMBDA f :
           IF f = <<>> THEN NoTime
           ELSE IF /\ f[1] >= 1 /\ f[2] >= 1 /\ f[2] <= 12 /\ f[3] >= 1
                   /\ f[1] <= DaysInMonth(f[3], f[2])
                   /\ f[4] <= 23 /\ f[5] <= 59 /\ f[6] <= 59
           THEN [ok |-> TRUE, year |-> f[3], month |-> f[2], day |-> f[1],
                 hour |-> f[4], minute |-> f[5], second |-> f[6]]
           ELSE NoTime)

\* the days of the months of year y before month m
RECURSIVE DaysBeforeMonth(_, _)
DaysBeforeMonth(y, m) ==
    IF m = 1 THEN 0 ELSE DaysBeforeMonth(y, m - 1) + DaysInMonth(y, m - 1)

DaysInYear(y) == IF IsLeapYear(y) THEN 366 ELSE 365

\* the days from 1 January 2025 to 1 January of year y
RECURSIVE DaysBeforeYear(_)
DaysBeforeYear(y) ==
    IF y = 2025 THEN 0
    ELSE IF y > 2025 THEN DaysBeforeYear(y - 1) + DaysInYear(y - 1)
    ELSE DaysBeforeYear(y + 1) - DaysInYear(y)

\* a moment as seconds since 1 January 2025 00:00:00 local time, the scale
\* the clock `now` is read on
Seconds(ts) ==
    (DaysBeforeYear(ts.year) + DaysBeforeMonth(ts.year, ts.month) + ts.day - 1) * 86400
        + ts.hour * 3600 + ts.minute * 60 + ts.second

(***************************************************************************)
(* Configuration: the hardcoded index table and the credentials            *)
(***************************************************************************)
s_NIFTY_BANK == <<"N", "I", "F", "T", "Y", "_", "B", "A", "N", "K">>

n_Nifty_Bank == <<"N", "i", "f", "t", "y", " ", "B", "a", "n", "k">>

s_NIFTY == <<"N", "I", "F", "T", "Y">>

n_Nifty_50 == <<"N", "i", "f", "t", "y", " ", "5", "0">>

s_NIFTY_NEXT_50 == <<"N", "I", "F", "T", "Y", "_", "N", "E", "X", "T", "_", "5", "0">>

n_Nifty_Next_50 == <<"N", "i", "f", "t", "y", " ", "N", "e", "x", "t", " ", "5", "0">>

s_NIFTY_IT == <<"N", "I", "F", "T", "Y", "_", "I", "T">>

n_Nifty_IT == <<"N", "i", "f", "t", "y", " ", "I", "T">>

s_NIFTY_AUTO == <<"N", "I", "F", "T", "Y", "_", "A", "U", "T", "O">>

n_Nifty_Auto == <<"N", "i", "f", "t", "y", " ", "A", "u", "t", "o">>

s_NIFTY_FMCG == <<"N", "I", "F", "T", "Y", "_", "F", "M", "C", "G">>

n_Nifty_FMCG == <<"N", "i", "f", "t", "y", " ", "F", "M", "C", "G">>

s_NIFTY_PHARMA == <<"N", "I", "F", "T", "Y", "_", "P", "H", "A", "R", "M", "A">>

n_Nifty_Pharma == <<"N", "i", "f", "t", "y", " ", "P", "h", "a", "r", "m", "a">>

s_NIFTY_REALTY == <<"N", "I", "F", "T", "Y", "_", "R", "E", "A", "L", "T", "Y">>

n_Nifty_Realty == <<"N", "i", "f", "t", "y", " ", "R", "e", "a", "l", "t", "y">>

s_NIFTY_500 == <<"N", "I", "F", "T", "Y", "_", "5", "0", "0">>

n_Nifty_500 == <<"N", "i", "f", "t", "y", " ", "5", "0", "0">>

s_NIFTY_100 == <<"N", "I", "F", "T", "Y", "_", "1", "0", "0">>

n_Nifty_100 == <<"N", "i", "f", "t", "y", " ", "1", "0", "0">>

\* The dict MAJOR_INDICES in its insertion order (the order its items() are
\* iterated in).
MAJOR_INDICES ==
    << [symbol |-> s_NIFTY_BANK,    token |-> "26009", name |-> n_Nifty_Bank,    exchange |-> "NSE"],
       [symbol |-> s_NIFTY,         token |-> "26000", name |-> n_Nifty_50,      exchange |-> "NSE"],
       [symbol |-> s_NIFTY_NEXT_50, token |-> "26013", name |-> n_Nifty_Next_50, exchange |-> "NSE"],
       [symbol |-> s_NIFTY_IT,      token |-> "26008", name |-> n_Nifty_IT,      exchange |-> "NSE"],
       [symbol |-> s_NIFTY_AUTO,    token |-> "26029", name |-> n_Nifty_Auto,    exchange |-> "NSE"],
       [symbol |-> s_NIFTY_FMCG,    token |-> "26021", name |-> n_Nifty_FMCG,    exchange |-> "NSE"],
       [symbol |-> s_NIFTY_PHARMA,  token |-> "26023", name |-> n_Nifty_Pharma,  exchange |-> "NSE"],
       [symbol |-> s_NIFTY_REALTY,  token |-> "26018", name |-> n_Nifty_Realty,  exchange |-> "NSE"],
       [symbol |-> s_NIFTY_500,     token |-> "26004", name |-> n_Nifty_500,     exchange |-> "NSE"],
       [symbol |-> s_NIFTY_100,     token |-> "26012", name |-> n_Nifty_100,     exchange |-> "NSE"] >>

\* `symbol in MAJOR_INDICES`
InMajorIndices(symbol) == \E i \in 1..Len(MAJOR_INDICES) : MAJOR_INDICES[i].symbol = symbol

\* MAJOR_INDICES[symbol]
MajorIndex(symbol) ==
    MAJOR_INDICES[CHOOSE i \in 1..Len(MAJOR_INDICES) : MAJOR_INDICES[i].symbol = symbol]

USER_ID == "FT000001"

TOKEN == "daily-token"

\* timedelta(hours=8), in seconds
SESSION_SECONDS == 28800

BL_SUFFIX == <<"-", "B", "L">>

str_NIFTY == <<"N", "I", "F", "T", "Y">>

str_nifty == <<"n", "i", "f", "t", "y">>

(***************************************************************************)
(* Values                                                                  *)
(***************************************************************************)
\* Python's None where a model object is expected
None == [model |-> "None"]

\* a vendor call that raised, and the values a vendor call can return
Raise == [kind |-> "raise"]

RespNone == [kind |-> "none"]

RespTrue == [kind |-> "true"]

RespFalse == [kind |-> "false"]

Dict(d) == [kind |-> "dict", d |-> d]

\* the truth value of a response
Truthy(r) == r.kind = "true" \/ (r.kind = "dict" /\ DOMAIN r.d # {})

\* `ret and ret.get('stat') == 'Ok'` for a response that is None or a dict
IsOk(r) == r.kind = "dict" /\ DOMAIN r.d # {} /\ Get(r.d, "stat", "") = "Ok"

\* a truthy response without a get method: calling ret.get raises AttributeError
GetRaises(r) == r.kind = "true"

(***************************************************************************)
(* The schema (stock_data/models.py) and the ORM calls made on it.         *)
(* Stock and Index are sets of rows; their unique columns are enforced     *)
(* at insertion, as the database enforces them.  The candle and quote      *)
(* tables are sequences of rows in insertion order, a row's id being its   *)
(* position, so that a row stored twice is a state of the model.           *)
(***************************************************************************)
\* Stock: symbol unique, token unique
StockIntegrityError(tbl, row) ==
    \E r \in tbl : r.symbol = row.symbol \/ r.token = row.token

\* Index: token unique (symbol is not)
IndexIntegrityError(tbl, row) ==
    \E r \in tbl : r.token = row.token

\* QuerySet.get_or_create(**lookup, defaults): the matching row if there is
\* one, MultipleObjectsReturned if there are several, else an insert, which
\* raises IntegrityError when a unique column collides.
GetOrCreate(tbl, hits, row, collides) ==
    IF Cardinality(hits) = 1
    THEN [exc |-> FALSE, obj |-> CHOOSE r \in hits : TRUE, created |-> FALSE, tbl |-> tbl]
    ELSE IF Cardinality(hits) > 1 \/ collides
    THEN [exc |-> TRUE, obj |-> None, created |-> FALSE, tbl |-> tbl]
    ELSE [exc |-> FALSE, obj |-> row, created |-> TRUE, tbl |-> tbl \cup {row}]

\* the tables and the service's connection state, as one value
World ==
    [Stock |-> Stock, Index |-> Index, LiveQuote |-> LiveQuote,
     IndexQuote |-> IndexQuote, OHLCData |-> OHLCData,
     IndexOHLCData |-> IndexOHLCData, UserSession |-> UserSession,
     is_connected |-> is_connected, cache |-> cache]

Commit(w) ==
    /\ Stock' = w.Stock
    /\ Index' = w.Index
    /\ LiveQuote' = w.LiveQuote
    /\ IndexQuote' = w.IndexQuote
    /\ OHLCData' = w.OHLCData
    /\ IndexOHLCData' = w.IndexOHLCData
    /\ UserSession' = w.UserSession
    /\ is_connected' = w.is_connected
    /\ cache' = w.cache
    /\ threads' = threads
    /\ _service_instance' = _service_instance

(***************************************************************************)
(* FlattradeClient (flattrade_client.py)                                   *)
(***************************************************************************)
\* a setup_session that knows the structured success only, not the bare
\* True of the older vendor API
setup_session_without_bare_true(ret) ==
    ret.kind = "dict" /\ Get(ret.d, "stat", "") = "Ok"

\* FlattradeClient.setup_session: the value is_connected is left with
setup_session(ret) ==
    IF ret.kind = "raise" THEN FALSE
    ELSE IF ret.kind = "dict" /\ Get(ret.d, "stat", "") = "Ok" THEN TRUE
    ELSE IF ret.kind = "true" THEN TRUE
    ELSE FALSE

\* the exchanges in the order of their names, not the order the code fixes
exchanges_by_name == <<"BSE", "CDS", "MCX", "NFO", "NSE">>

exchanges_to_search == <<"NSE", "BSE", "NFO", "CDS", "MCX">>

\* the loop body of search_stock for one exchange: the tagged results it
\* adds to all_results (none when the call raises or is not a success)
ExchangeResults(exchange, ret) ==
    IF ret.kind = "raise" \/ GetRaises(ret) THEN <<>>
    ELSE IF IsOk(ret) /\ Get(ret.d, "values", <<>>) # <<>>
    THEN [i \in 1..Len(ret.d.values) |-> Put(ret.d.values[i], "search_exchange", exchange)]
    ELSE <<>>

\* a fan-out that an exchange's exception ends: the loop without its try
RECURSIVE FanOutAbortsOnException(_, _)
FanOutAbortsOnException(resp, i) ==
    IF i > Len(exchanges_to_search) THEN <<>>
    ELSE IF resp[exchanges_to_search[i]].kind = "raise" THEN <<>>
    ELSE ExchangeResults(exchanges_to_search[i], resp[exchanges_to_search[i]])
            \o FanOutAbortsOnException(resp, i + 1)

\* the loop of search_stock over exchanges_to_search, from position i
RECURSIVE FanOut(_, _)
FanOut(resp, i) ==
    IF i > Len(exchanges_to_search) THEN <<>>
    ELSE ExchangeResults(exchanges_to_search[i], resp[exchanges_to_search[i]])
            \o FanOut(resp, i + 1)

major_indices_tokens ==
    << [token |-> "26000",    expected_symbol |-> <<"N", "I", "F", "T", "Y">>],
       [token |-> "99926000", expected_symbol |-> <<"N", "I", "F", "T", "Y">>],
       [token |-> "26001",    expected_symbol |-> <<"N", "I", "F", "T", "Y", " ", "B", "A", "N", "K">>],
       [token |-> "99926001", expected_symbol |-> <<"N", "I", "F", "T", "Y", " ", "B", "A", "N", "K">>] >>

\* FlattradeClient.get_major_indices_info, from position i; quotes[token] is
\* what get_quotes answers for the token
RECURSIVE get_major_indices_info(_, _)
get_major_indices_info(quotes, i) ==
    IF i > Len(major_indices_tokens) THEN <<>>
    ELSE (IF IsOk(quotes[major_indices_tokens[i].token])
          THEN << [token |-> major_indices_tokens[i].token,
                   tsym |-> major_indices_tokens[i].expected_symbol, exch |-> "NSE",
                   instname |-> "INDEX", search_exchange |-> "NSE",
                   cname |-> major_indices_tokens[i].expected_symbol
                                \o <<" ", "I", "n", "d", "e", "x">>,
                   discovered |-> TRUE] >>
          ELSE <<>>)
         \o get_major_indices_info(quotes, i + 1)

\* FlattradeClient.search_stock
search_stock(connected, search_text, resp, quotes) ==
    IF ~connected THEN RespNone
    ELSE With(IF contains(lower(search_text), str_nifty)
              THEN FanOut(resp, 1) \o get_major_indices_info(quotes, 1)
              ELSE FanOut(resp, 1),
              LAMBDA all_results :
                IF all_results # <<>>
                THEN Dict([stat |-> "Ok", values |-> all_results])
                ELSE Dict([stat |-> "Not_Ok", emsg |-> "No results found"]))

(***************************************************************************)
(* FlattradeService (stock_data/services.py)                               *)
(***************************************************************************)
\* what a service method hands back to its caller
RetNone == [kind |-> "None"]

RetList(items) == [kind |-> "list", items |-> items]

RetObj(obj) == [kind |-> "obj", obj |-> obj]

RetRaise == [kind |-> "raise"]

\* setup_client: the session row saved on a successful connection
SessionRow(t) ==
    [user_id |-> USER_ID, token |-> TOKEN, is_active |-> TRUE,
     expires_at |-> t + SESSION_SECONDS]

\* a setup_client that leaves a session row it finds as it is
setup_client_keeping_session(w, ret, t) ==
    IF ~setup_session(ret)
    THEN [w |-> [w EXCEPT !.is_connected = FALSE], ok |-> FALSE]
    ELSE [w |-> [w EXCEPT !.is_connected = TRUE,
                          !.UserSession =
                              IF \E r \in w.UserSession : r.user_id = USER_ID
                              THEN w.UserSession ELSE w.UserSession \cup {SessionRow(t)}],
          ok |-> TRUE]

\* FlattradeService.setup_client at time t, the vendor answering ret
setup_client(w, ret, t) ==
    IF ~setup_session(ret)
    THEN [w |-> [w EXCEPT !.is_connected = FALSE], ok |-> FALSE]
    ELSE With(GetOrCreate(w.UserSession, {r \in w.UserSession : r.user_id = USER_ID},
                          SessionRow(t), FALSE),
              LAMBDA goc :
                IF goc.exc
                THEN [w |-> [w EXCEPT !.is_connected = TRUE], ok |-> FALSE]
                ELSE IF goc.created
                THEN [w |-> [w EXCEPT !.is_connected = TRUE, !.UserSession = goc.tbl],
                      ok |-> TRUE]
                ELSE [w |-> [w EXCEPT !.is_connected = TRUE,
                                      !.UserSession = (goc.tbl \ {goc.obj}) \cup {SessionRow(t)}],
                      ok |-> TRUE])

\* the reconnection the service methods start with: nothing when the client
\* is connected, else setup_client
EnsureConnected(w, auth, t) ==
    IF w.is_connected THEN [w |-> w, ok |-> TRUE] ELSE setup_client(w, auth, t)

\* get_or_create_stock: the row an insert would store; search_exchange ""
\* stands for None
StockRow(symbol, token, exchange, search_exchange) ==
    [model |-> "Stock", symbol |-> symbol, token |-> token,
     exchange |-> IF search_exchange # "" THEN search_exchange ELSE exchange]

\* an update_or_create in the place of get_or_create: a stored symbol's row
\* is rewritten with the token and the exchange of the call
update_or_create_stock(w, symbol, token, exchange, search_exchange) ==
    IF endswith(symbol, BL_SUFFIX) THEN [w |-> w, obj |-> None]
    ELSE [w |-> [w EXCEPT !.Stock = {r \in @ : r.symbol # symbol /\ r.token # token}
                                      \cup {StockRow(symbol, token, exchange, search_exchange)}],
          obj |-> StockRow(symbol, token, exchange, search_exchange)]

\* FlattradeService.get_or_create_stock
get_or_create_stock(w, symbol, token, exchange, search_exchange) ==
    IF endswith(symbol, BL_SUFFIX) THEN [w |-> w, obj |-> None]
    ELSE With(GetOrCreate(w.Stock, {r \in w.Stock : r.symbol = symbol},
                          StockRow(symbol, token, exchange, search_exchange),
                          StockIntegrityError(w.Stock,
                              StockRow(symbol, token, exchange, search_exchange))),
              LAMBDA goc :
                IF goc.exc THEN [w |-> w, obj |-> None]
                ELSE [w |-> [w EXCEPT !.Stock = goc.tbl], obj |-> goc.obj])

\* FlattradeService._generate_index_name
name_mapping ==
    { <<s_NIFTY, n_Nifty_50>>, <<s_NIFTY_BANK, n_Nifty_Bank>>,
      <<s_NIFTY_NEXT_50, n_Nifty_Next_50>>, <<s_NIFTY_100, n_Nifty_100>>,
      <<s_NIFTY_IT, n_Nifty_IT>>, <<s_NIFTY_AUTO, n_Nifty_Auto>>,
      <<s_NIFTY_FMCG, n_Nifty_FMCG>>, <<s_NIFTY_PHARMA, n_Nifty_Pharma>> }

_generate_index_name(symbol) ==
    IF \E m \in name_mapping : m[1] = symbol
    THEN (CHOOSE m \in name_mapping : m[1] = symbol)[2]
    ELSE title(replace_char(symbol, "_", " "))

\* get_or_create_index: the row an insert would store, the hardcoded token
\* and name replacing the given ones for a symbol of MAJOR_INDICES; name <<>>
\* stands for None
IndexRow(symbol, token, name) ==
    IF InMajorIndices(symbol)
    THEN [model |-> "Index", symbol |-> symbol, token |-> MajorIndex(symbol).token,
          name |-> MajorIndex(symbol).name, exchange |-> "NSE"]
    ELSE [model |-> "Index", symbol |-> symbol, token |-> token,
          name |-> IF name # <<>> THEN name ELSE _generate_index_name(symbol),
          exchange |-> "NSE"]

\* FlattradeService.get_or_create_index
get_or_create_index(w, symbol, token, name) ==
    With(IndexRow(symbol, token, name),
         LAMBDA row :
           With(GetOrCreate(w.Index,
                            {r \in w.Index : r.symbol = symbol /\ r.token = row.token},
                            row, IndexIntegrityError(w.Index, row)),
                LAMBDA goc :
                  IF goc.exc THEN [w |-> w, obj |-> None]
                  ELSE [w |-> [w EXCEPT !.Index = goc.tbl], obj |-> goc.obj]))

\* `if index: results.append(index)`
AppendIf(results, obj) ==
    IF obj.model # "None" THEN Append(results, obj) ELSE results

\* search_stocks, the loop over MAJOR_INDICES.items() from position i
RECURSIVE HardcodedMatches(_, _, _, _)
HardcodedMatches(w, results, search_lower, i) ==
    IF i > Len(MAJOR_INDICES) THEN [w |-> w, results |-> results]
    ELSE IF \/ contains(lower(MAJOR_INDICES[i].symbol), search_lower)
            \/ contains(lower(MAJOR_INDICES[i].name), search_lower)
    THEN With(get_or_create_index(w, MAJOR_INDICES[i].symbol, MAJOR_INDICES[i].token,
                                  MAJOR_INDICES[i].name),
              LAMBDA g :
                HardcodedMatches(g.w, AppendIf(results, g.obj), search_lower, i + 1))
    ELSE HardcodedMatches(w, results, search_lower, i + 1)

\* search_stocks: is the item classified as an index
IsIndexItem(instname, symbol) ==
    instname = "UNDIND" \/ contains(upper(symbol), str_NIFTY)

\* search_stocks: is the token already among the results
AlreadyInResults(results, token) ==
    \E j \in 1..Len(results) : results[j].token = token

\* search_stocks: the get-or-create of one item of the search result
PersistItem(w, item) ==
    IF IsIndexItem(Get(item, "instname", ""), Get(item, "tsym", <<>>))
    THEN get_or_create_index(w, Get(item, "tsym", <<>>), Get(item, "token", ""),
                             Get(item, "cname", Get(item, "tsym", <<>>)))
    ELSE get_or_create_stock(w, Get(item, "tsym", <<>>), Get(item, "token", ""), "NSE",
                             Get(item, "search_exchange", "NSE"))

\* search_stocks, the loop over search_result['values'] from position i
RECURSIVE LiveMatches(_, _, _, _)
LiveMatches(w, results, values, i) ==
    IF i > Len(values) THEN [w |-> w, results |-> results]
    ELSE IF \/ Get(values[i], "tsym", <<>>) = <<>>
            \/ Get(values[i], "token", "") = ""
            \/ AlreadyInResults(results, Get(values[i], "token", ""))
    THEN LiveMatches(w, results, values, i + 1)
    ELSE With(PersistItem(w, values[i]),
              LAMBDA g : LiveMatches(g.w, AppendIf(results, g.obj), values, i + 1))

\* search_stocks once the client is connected: the flow inside its try block
SearchConnected(w, search_text, resp, quotes) ==
    With(HardcodedMatches(w, <<>>, lower(search_text), 1),
         LAMBDA hard :
           With(search_stock(hard.w.is_connected, search_text, resp, quotes),
                LAMBDA search_result :
                  IF IsOk(search_result)
                  THEN With(LiveMatches(hard.w, hard.results, search_result.d.values, 1),
                            LAMBDA live : [w |-> live.w, ret |-> RetList(live.results)])
                  ELSE [w |-> hard.w, ret |-> RetNone]))

\* FlattradeService.search_stocks at time t: auth is the vendor's answer to a
\* reconnection attempt, resp[exchange] its answer to searchscrip and
\* quotes[token] its answer to get_quotes during index discovery
search_stocks(w, search_text, auth, resp, quotes, t) ==
    With(EnsureConnected(w, auth, t),
         LAMBDA sc :
           IF ~sc.ok THEN [w |-> sc.w, ret |-> RetList(<<>>)]
           ELSE SearchConnected(sc.w, search_text, resp, quotes))

(***************************************************************************)
(* Quotes: FlattradeClient.get_live_quotes and the service's               *)
(* get_live_quote and get_index_quote.  Each returns, with its result,     *)
(* the vendor calls it made, in order.                                     *)
(***************************************************************************)
\* a get_quotes that is called again when it raises
QuotesForTokenRetrying(quote, calls) ==
    IF quote.kind = "raise" \/ GetRaises(quote)
    THEN [ret |-> RespNone, calls |-> calls \o <<"get_quotes", "get_quotes">>]
    ELSE [ret |-> quote, calls |-> Append(calls, "get_quotes")]

\* get_live_quotes after the token is known: api.get_quotes, its answer
\* handed back whether or not it is a success, None when the call or the
\* inspection of its answer raises
QuotesForToken(quote, calls) ==
    IF quote.kind = "raise" \/ GetRaises(quote)
    THEN [ret |-> RespNone, calls |-> Append(calls, "get_quotes")]
    ELSE [ret |-> quote, calls |-> Append(calls, "get_quotes")]

\* FlattradeClient.get_live_quotes: search is the vendor's answer to
\* searchscrip and quote its answer to get_quotes
get_live_quotes(connected, symbol, search, quote) ==
    IF ~connected THEN [ret |-> RespNone, calls |-> <<>>]
    ELSE IF isdigit(symbol) THEN QuotesForToken(quote, <<>>)
    ELSE IF search.kind = "raise" \/ GetRaises(search)
    THEN [ret |-> RespNone, calls |-> <<"searchscrip">>]
    ELSE IF Truthy(search) /\ Get(search.d, "values", <<>>) # <<>>
    THEN IF "token" \in DOMAIN search.d.values[1]
         THEN QuotesForToken(quote, <<"searchscrip">>)
         ELSE [ret |-> RespNone, calls |-> <<"searchscrip">>]
    ELSE [ret |-> RespNone, calls |-> <<"searchscrip">>]

\* a row built without the defaults of quote_data.get: a missing field fails
LiveQuoteFieldsWithoutDefaults(quote_data) ==
    [k \in {"ltp", "open_price", "high_price", "low_price", "volume", "change",
            "change_percent"} |->
        IF {"lp", "o", "h", "l", "v", "c", "prctyp"} \subseteq DOMAIN quote_data
        THEN Zero ELSE Invalid]

\* the keyword arguments of LiveQuote.objects.create, as the columns store
\* them
LiveQuoteFields(quote_data) ==
    [ltp            |-> Quantized(DecimalField(quote_data, "lp"), 10, 2),
     open_price     |-> Quantized(DecimalField(quote_data, "o"), 10, 2),
     high_price     |-> Quantized(DecimalField(quote_data, "h"), 10, 2),
     low_price      |-> Quantized(DecimalField(quote_data, "l"), 10, 2),
     volume         |-> IntField(quote_data, "v"),
     change         |-> Quantized(DecimalField(quote_data, "c"), 10, 2),
     change_percent |-> Quantized(DecimalField(quote_data, "prctyp"), 5, 2)]

\* the keyword arguments of IndexQuote.objects.create
IndexQuoteFields(quote_data) ==
    [ltp            |-> Quantized(DecimalField(quote_data, "lp"), 12, 2),
     open_price     |-> Quantized(DecimalField(quote_data, "o"), 12, 2),
     high_price     |-> Quantized(DecimalField(quote_data, "h"), 12, 2),
     low_price      |-> Quantized(DecimalField(quote_data, "l"), 12, 2),
     change         |-> Quantized(DecimalField(quote_data, "c"), 12, 2),
     change_percent |-> Quantized(DecimalField(quote_data, "prctyp"), 5, 2)]

\* did every conversion succeed
AllOk(fields) == \A k \in DOMAIN fields : fields[k].ok

\* objects.create: the row inserted, with its id and its auto_now_add
\* timestamp
NewRow(model, tbl, owner, fields, t) ==
    [k \in DOMAIN fields \cup {"model", "id", "owner", "timestamp"} |->
        CASE k = "model" -> model
          [] k = "id" -> Len(tbl) + 1
          [] k = "owner" -> owner
          [] k = "timestamp" -> t
          [] OTHER -> fields[k]]

\* get_live_quote from the answer of get_live_quotes on: the branch on the
\* answer, the stock, the row
StoreLiveQuote(w, symbol, exchange, q, t) ==
    IF ~IsOk(q.ret) THEN [w |-> w, ret |-> RetNone, calls |-> q.calls]
    ELSE With(get_or_create_stock(w, symbol, Get(q.ret.d, "token", ""), exchange, ""),
              LAMBDA g :
                IF g.obj.model = "None" \/ ~AllOk(LiveQuoteFields(q.ret.d))
                THEN [w |-> g.w, ret |-> RetNone, calls |-> q.calls]
                ELSE With(NewRow("LiveQuote", g.w.LiveQuote, g.obj.symbol,
                                 LiveQuoteFields(q.ret.d), t),
                          LAMBDA live_quote :
                            [w |-> [g.w EXCEPT !.LiveQuote = Append(@, live_quote)],
                             ret |-> RetObj(live_quote), calls |-> q.calls]))

\* get_live_quote: the exchange of the stored stock, NSE when none is stored
ExchangeOf(w, symbol) ==
    IF \E r \in w.Stock : r.symbol = symbol
    THEN (CHOOSE r \in w.Stock : r.symbol = symbol).exchange
    ELSE "NSE"

\* FlattradeService.get_live_quote at time t
get_live_quote(w, symbol, auth, search, quote, t) ==
    With(EnsureConnected(w, auth, t),
         LAMBDA sc :
           IF ~sc.ok THEN [w |-> sc.w, ret |-> RetNone, calls |-> <<>>]
           ELSE StoreLiveQuote(sc.w, symbol, ExchangeOf(sc.w, symbol),
                               get_live_quotes(sc.w.is_connected, symbol, search, quote), t))

\* cache.get: the value under the key, None when absent or expired
cache_get(c, key, t) ==
    IF \E e \in c : e.key = key /\ e.expires > t
    THEN (CHOOSE e \in c : e.key = key /\ e.expires > t).value
    ELSE None

\* cache.set(key, value, timeout) at time t
cache_set(c, key, value, timeout, t) ==
    {e \in c : e.key # key} \cup {[key |-> key, value |-> value, expires |-> t + timeout]}

INDEX_QUOTE_TIMEOUT == 300

\* f"index_quote_{symbol.replace(' ', '_')}"
IndexQuoteKey(symbol) == <<"index_quote_">> \o replace_char(symbol, " ", "_")

\* get_index_quote: the vendor's answer, by token for a symbol of
\* MAJOR_INDICES and through get_live_quotes otherwise
IndexQuoteData(connected, symbol, search, quote) ==
    IF InMajorIndices(symbol)
    THEN [ret |-> quote, calls |-> <<"get_quotes">>]
    ELSE get_live_quotes(connected, symbol, search, quote)

\* a get_index_quote that keeps one current quote per index: the new row
\* takes the place of the index's stored ones
StoreIndexQuoteAsCurrent(w, symbol, q, t) ==
    IF q.ret.kind = "raise" \/ GetRaises(q.ret) \/ ~IsOk(q.ret)
    THEN [w |-> w, ret |-> RetNone, calls |-> q.calls]
    ELSE With(get_or_create_index(w, symbol, Get(q.ret.d, "token", ""), <<>>),
              LAMBDA g :
                IF g.obj.model = "None" \/ ~AllOk(IndexQuoteFields(q.ret.d))
                THEN [w |-> g.w, ret |-> RetNone, calls |-> q.calls]
                ELSE With(NewRow("IndexQuote", g.w.IndexQuote, g.obj.token,
                                 IndexQuoteFields(q.ret.d), t),
                          LAMBDA index_quote :
                            [w |-> [g.w EXCEPT
                                      !.IndexQuote = Append(SelectSeq(@, LAMBDA r : r.owner # g.obj.token),
                                                           index_quote),
                                      !.cache = cache_set(@, IndexQuoteKey(symbol), index_quote,
                                                          INDEX_QUOTE_TIMEOUT, t)],
                             ret |-> RetObj(index_quote), calls |-> q.calls]))

\* get_index_quote from the vendor's answer on
StoreIndexQuote(w, symbol, q, t) ==
    IF q.ret.kind = "raise" \/ GetRaises(q.ret) \/ ~IsOk(q.ret)
    THEN [w |-> w, ret |-> RetNone, calls |-> q.calls]
    ELSE With(get_or_create_index(w, symbol, Get(q.ret.d, "token", ""), <<>>),
              LAMBDA g :
                IF g.obj.model = "None" \/ ~AllOk(IndexQuoteFields(q.ret.d))
                THEN [w |-> g.w, ret |-> RetNone, calls |-> q.calls]
                ELSE With(NewRow("IndexQuote", g.w.IndexQuote, g.obj.token,
                                 IndexQuoteFields(q.ret.d), t),
                          LAMBDA index_quote :
                            [w |-> [g.w EXCEPT
                                      !.IndexQuote = Append(@, index_quote),
                                      !.cache = cache_set(@, IndexQuoteKey(symbol), index_quote,
                                                          INDEX_QUOTE_TIMEOUT, t)],
                             ret |-> RetObj(index_quote), calls |-> q.calls]))

\* FlattradeService.get_index_quote at time t
get_index_quote(w, symbol, auth, search, quote, t) ==
    With(EnsureConnected(w, auth, t),
         LAMBDA sc :
           IF ~sc.ok THEN [w |-> sc.w, ret |-> RetNone, calls |-> <<>>]
           ELSE IF cache_get(sc.w.cache, IndexQuoteKey(symbol), t).model # "None"
           THEN [w |-> sc.w, ret |-> RetObj(cache_get(sc.w.cache, IndexQuoteKey(symbol), t)),
                 calls |-> <<>>]
           ELSE StoreIndexQuote(sc.w, symbol,
                                IndexQuoteData(sc.w.is_connected, symbol, search, quote), t))

(***************************************************************************)
(* Candles: FlattradeClient.get_ohlc_data and the service's get_ohlc_data  *)
(* and get_index_ohlc_data                                                 *)
(***************************************************************************)
\* a vendor answer that is a list
RespList(items) == [kind |-> "list", items |-> items]

\* FlattradeClient.get_ohlc_data: what it hands back for the answer ret of
\* get_time_price_series
client_get_ohlc_data(connected, ret) ==
    IF ~connected \/ ret.kind = "raise" THEN RespNone
    ELSE IF ret.kind = "list" /\ ret.items # <<>>
    THEN Dict([stat |-> "Ok", data |-> ret.items])
    ELSE ret

\* the defaults of OHLCData.objects.get_or_create, as the columns store them
OHLCDefaults(item) ==
    [open_price  |-> Quantized(DecimalField(item, "into"), 10, 2),
     high_price  |-> Quantized(DecimalField(item, "inth"), 10, 2),
     low_price   |-> Quantized(DecimalField(item, "intl"), 10, 2),
     close_price |-> Quantized(DecimalField(item, "intc"), 10, 2),
     volume      |-> IntField(item, "v")]

\* the defaults of IndexOHLCData.objects.get_or_create
IndexOHLCDefaults(item) ==
    [open_price  |-> Quantized(DecimalField(item, "into"), 12, 2),
     high_price  |-> Quantized(DecimalField(item, "inth"), 12, 2),
     low_price   |-> Quantized(DecimalField(item, "intl"), 12, 2),
     close_price |-> Quantized(DecimalField(item, "intc"), 12, 2)]

\* the row an insert of a candle stores
CandleRow(model, tbl, owner, timestamp, interval, defaults) ==
    [k \in DOMAIN defaults \cup {"model", "id", "owner", "timestamp", "interval"} |->
        CASE k = "model" -> model
          [] k = "id" -> Len(tbl) + 1
          [] k = "owner" -> owner
          [] k = "timestamp" -> timestamp
          [] k = "interval" -> interval
          [] OTHER -> defaults[k]]

\* is a candle of the instrument stored for the moment and the interval
CandleStored(tbl, owner, timestamp, interval) ==
    \E j \in 1..Len(tbl) :
        tbl[j].owner = owner /\ tbl[j].timestamp = timestamp /\ tbl[j].interval = interval

\* the loop over the entries of the answer, from entry i on: an entry whose
\* time does not parse is skipped, an entry whose numbers do not convert
\* ends the call in its except clause (the rows stored so far stay), any
\* other is stored unless its (instrument, timestamp, interval) is there
RECURSIVE StoreCandles(_, _, _, _, _, _, _)
StoreCandles(model, tbl, owner, interval, data, i, ohlc_records) ==
    IF i > Len(data) THEN [tbl |-> tbl, ret |-> RetList(ohlc_records)]
    ELSE With(strptime(Get(data[i], "time", <<>>)),
              LAMBDA timestamp :
                IF ~timestamp.ok
                THEN StoreCandles(model, tbl, owner, interval, data, i + 1, ohlc_records)
                ELSE IF ~AllOk(IF model = "OHLCData" THEN OHLCDefaults(data[i])
                               ELSE IndexOHLCDefaults(data[i]))
                THEN [tbl |-> tbl, ret |-> RetNone]
                ELSE IF CandleStored(tbl, owner, timestamp, interval)
                THEN StoreCandles(model, tbl, owner, interval, data, i + 1, ohlc_records)
                ELSE With(CandleRow(model, tbl, owner, timestamp, interval,
                                    IF model = "OHLCData" THEN OHLCDefaults(data[i])
                                    ELSE IndexOHLCDefaults(data[i])),
                          LAMBDA ohlc_record :
                            StoreCandles(model, Append(tbl, ohlc_record), owner, interval,
                                         data, i + 1, Append(ohlc_records, ohlc_record))))

\* the branch on the answer of the client, shared by the two fetches
CandlesFromResponse(model, tbl, owner, interval, ohlc_response) ==
    IF GetRaises(ohlc_response) \/ ~IsOk(ohlc_response)
    THEN [tbl |-> tbl, ret |-> RetNone]
    ELSE StoreCandles(model, tbl, owner, interval, Get(ohlc_response.d, "data", <<>>),
                      1, <<>>)

\* get_ohlc_data once the client is connected
StockCandles(w, symbol, interval, resp) ==
    IF ~\E r \in w.Stock : r.symbol = symbol THEN [w |-> w, ret |-> RetNone]
    ELSE With(CandlesFromResponse("OHLCData", w.OHLCData, symbol, interval,
                                  client_get_ohlc_data(w.is_connected, resp)),
              LAMBDA c : [w |-> [w EXCEPT !.OHLCData = c.tbl], ret |-> c.ret])

\* FlattradeService.get_ohlc_data at time t: resp is the vendor's answer to
\* get_time_price_series
get_ohlc_data(w, symbol, interval, auth, resp, t) ==
    With(EnsureConnected(w, auth, t),
         LAMBDA sc :
           IF ~sc.ok THEN [w |-> sc.w, ret |-> RetNone]
           ELSE StockCandles(sc.w, symbol, interval, resp))

\* get_index_ohlc_data: the index the candles are for, by the hardcoded
\* mapping for a symbol of MAJOR_INDICES, else the one stored row with the
\* symbol
IndexForCandles(w, symbol) ==
    IF InMajorIndices(symbol)
    THEN get_or_create_index(w, symbol, MajorIndex(symbol).token, MajorIndex(symbol).name)
    ELSE IF Cardinality({r \in w.Index : r.symbol = symbol}) = 1
    THEN [w |-> w, obj |-> CHOOSE r \in w.Index : r.symbol = symbol]
    ELSE [w |-> w, obj |-> None]

\* get_index_ohlc_data once the client is connected
IndexCandles(w, symbol, interval, resp) ==
    With(IndexForCandles(w, symbol),
         LAMBDA g :
           IF g.obj.model = "None" THEN [w |-> g.w, ret |-> RetNone]
           ELSE With(CandlesFromResponse("IndexOHLCData", g.w.IndexOHLCData, g.obj.token,
                                         interval,
                                         client_get_ohlc_data(g.w.is_connected, resp)),
                     LAMBDA c : [w |-> [g.w EXCEPT !.IndexOHLCData = c.tbl], ret |-> c.ret]))

\* FlattradeService.get_index_ohlc_data at time t
get_index_ohlc_data(w, symbol, interval, auth, resp, t) ==
    With(EnsureConnected(w, auth, t),
         LAMBDA sc :
           IF ~sc.ok THEN [w |-> sc.w, ret |-> RetNone]
           ELSE IndexCandles(sc.w, symbol, interval, resp))

(***************************************************************************)
(* The views (stock_data/views.py) that hand an interval to ingestion.     *)
(* A request's interval parameter is absent or a text; a view yields the   *)
(* service calls it made, in order, and what its response is made of.      *)
(***************************************************************************)
NoParameter == [given |-> FALSE, text |-> <<>>]

Parameter(text) == [given |-> TRUE, text |-> text]

valid_intervals == {1, 3, 5, 15, 30, 60}

\* an interval taken from the request as it comes, whenever it is a number
int_or_default(raw) ==
    IF ~raw.given THEN 5
    ELSE IF IntOf(raw.text).ok THEN IntOf(raw.text).val ELSE 5

\* the validation every one of the views starts with:
\*   interval = request.GET.get('interval', 5)
\*   try: interval = int(interval); if interval not in valid_intervals: interval = 5
\*   except (ValueError, TypeError): interval = 5
validate_interval(raw) ==
    IF ~raw.given THEN 5
    ELSE With(IntOf(raw.text),
              LAMBDA n : IF n.ok /\ n.val \in valid_intervals THEN n.val ELSE 5)

FRESH_SECONDS == 300

\* a service call as the views' record of it
Handed(fn, symbol, interval) == [fn |-> fn, symbol |-> symbol, interval |-> interval]

\* is a Python value truthy: an object, or a list that is not empty
TruthyRet(ret) == ret.kind = "obj" \/ (ret.kind = "list" /\ ret.items # <<>>)

\* len(ohlc_records) if ohlc_records else 0
CountOf(ret) == IF TruthyRet(ret) THEN Len(ret.items) ELSE 0

\* the candle fetch and the quote fetch of a stock view, each made when
\* wanted; env holds the vendor's answers
StockIngestion(w, symbol, interval, want_ohlc, want_quote, auth, env, t) ==
    With(IF want_ohlc THEN get_ohlc_data(w, symbol, interval, auth, env.candles, t)
         ELSE [w |-> w, ret |-> RetNone],
         LAMBDA o :
           With(IF want_quote
                THEN get_live_quote(o.w, symbol, auth, env.search, env.quote, t)
                ELSE [w |-> o.w, ret |-> RetNone, calls |-> <<>>],
                LAMBDA q :
                  [w |-> q.w, ohlc_records |-> o.ret, live_quote |-> q.ret,
                   handed |->
                      (IF want_ohlc THEN <<Handed("get_ohlc_data", symbol, interval)>>
                       ELSE <<>>)
                      \o (IF want_quote THEN <<Handed("get_live_quote", symbol, 0)>>
                          ELSE <<>>)]))

\* the candle fetch and the quote fetch of an index view
IndexIngestion(w, symbol, interval, want_ohlc, want_quote, auth, env, t) ==
    With(IF want_ohlc THEN get_index_ohlc_data(w, symbol, interval, auth, env.candles, t)
         ELSE [w |-> w, ret |-> RetNone],
         LAMBDA o :
           With(IF want_quote
                THEN get_index_quote(o.w, symbol, auth, env.search, env.quote, t)
                ELSE [w |-> o.w, ret |-> RetNone, calls |-> <<>>],
                LAMBDA q :
                  [w |-> q.w, ohlc_records |-> o.ret, live_quote |-> q.ret,
                   handed |->
                      (IF want_ohlc THEN <<Handed("get_index_ohlc_data", symbol, interval)>>
                       ELSE <<>>)
                      \o (IF want_quote THEN <<Handed("get_index_quote", symbol, 0)>>
                          ELSE <<>>)]))

\* get_object_or_404 found nothing
NotFound(w) == [w |-> w, handed |-> <<>>, response |-> [kind |-> "Http404"]]

\* is a candle of the instrument and the interval stored that is no older
\* than five minutes
recent_ohlc(tbl, owner, interval, t) ==
    \E j \in 1..Len(tbl) :
        /\ tbl[j].owner = owner /\ tbl[j].interval = interval
        /\ Seconds(tbl[j].timestamp) >= t - FRESH_SECONDS

\* is a quote of the instrument stored that is no older than five minutes
recent_quote(tbl, owner, t) ==
    \E j \in 1..Len(tbl) : tbl[j].owner = owner /\ tbl[j].timestamp >= t - FRESH_SECONDS

\* views.stock_detail: stock is the row get_object_or_404 finds, None when
\* it finds none
stock_detail(w, stock, raw, auth, env, t) ==
    IF stock.model = "None" THEN NotFound(w)
    ELSE With(StockIngestion(w, stock.symbol, validate_interval(raw),
                             ~recent_ohlc(w.OHLCData, stock.symbol, validate_interval(raw), t),
                             ~recent_quote(w.LiveQuote, stock.symbol, t), auth, env, t),
              LAMBDA g :
                [w |-> g.w, handed |-> g.handed,
                 response |-> [kind |-> "render", interval |-> validate_interval(raw)]])

\* views.index_detail
index_detail(w, index, raw, auth, env, t) ==
    IF index.model = "None" THEN NotFound(w)
    ELSE With(IndexIngestion(w, index.symbol, validate_interval(raw),
                             ~recent_ohlc(w.IndexOHLCData, index.token,
                                          validate_interval(raw), t),
                             ~recent_quote(w.IndexQuote, index.token, t), auth, env, t),
              LAMBDA g :
                [w |-> g.w, handed |-> g.handed,
                 response |-> [kind |-> "render", interval |-> validate_interval(raw)]])

\* views.get_ohlc_data, the JSON endpoint
view_get_ohlc_data(w, stock, raw, auth, env, t) ==
    IF stock.model = "None" THEN NotFound(w)
    ELSE With(StockIngestion(w, stock.symbol, validate_interval(raw), TRUE, FALSE,
                             auth, env, t),
              LAMBDA g :
                [w |-> g.w, handed |-> g.handed,
                 response |-> [kind |-> "json", success |-> TruthyRet(g.ohlc_records),
                               interval |-> validate_interval(raw)]])

\* views.refresh_stock_data
refresh_stock_data(w, stock, raw, auth, env, t) ==
    IF stock.model = "None" THEN NotFound(w)
    ELSE With(StockIngestion(w, stock.symbol, validate_interval(raw), TRUE, TRUE,
                             auth, env, t),
              LAMBDA g :
                [w |-> g.w, handed |-> g.handed,
                 response |-> [kind |-> "redirect",
                               success |-> TruthyRet(g.ohlc_records) \/ TruthyRet(g.live_quote),
                               interval |-> validate_interval(raw)]])

\* what the asynchronous views answer
AsyncResponse(g) ==
    [kind |-> "json", success |-> TRUE, ohlc_count |-> CountOf(g.ohlc_records),
     has_quote |-> g.live_quote.kind # "None"]

\* views.refresh_data_async: get_object_or_404 is inside its try
refresh_data_async(w, stock, raw, auth, env, t) ==
    IF stock.model = "None"
    THEN [w |-> w, handed |-> <<>>, response |-> [kind |-> "json", success |-> FALSE]]
    ELSE With(StockIngestion(w, stock.symbol, validate_interval(raw), TRUE, TRUE,
                             auth, env, t),
              LAMBDA g : [w |-> g.w, handed |-> g.handed, response |-> AsyncResponse(g)])

\* views.refresh_index_data_async
refresh_index_data_async(w, index, raw, auth, env, t) ==
    IF index.model = "None"
    THEN [w |-> w, handed |-> <<>>, response |-> [kind |-> "json", success |-> FALSE]]
    ELSE With(IndexIngestion(w, index.symbol, validate_interval(raw), TRUE, TRUE,
                             auth, env, t),
              LAMBDA g : [w |-> g.w, handed |-> g.handed, response |-> AsyncResponse(g)])

(***************************************************************************)
(* The vendor endpoints an operation of the service reaches, in order      *)
(***************************************************************************)
\* the reconnection the service methods start with: set_session is called
\* when the client is not connected
ReconnectCalls(w) == IF w.is_connected THEN <<>> ELSE <<"set_session">>

\* FlattradeClient.get_ohlc_data: get_time_price_series is called when the
\* client is connected
ClientCandleCalls(connected) ==
    IF connected THEN <<"get_time_price_series">> ELSE <<>>

\* FlattradeService.get_ohlc_data: the client is asked when the service is
\* connected and the stock is stored
StockCandleCalls(w, symbol) ==
    IF w.is_connected /\ \E r \in w.Stock : r.symbol = symbol
    THEN ClientCandleCalls(w.is_connected) ELSE <<>>

\* FlattradeService.get_index_ohlc_data: the client is asked when the
\* service is connected and the index is found
IndexCandleCalls(w, symbol) ==
    IF w.is_connected /\ IndexForCandles(w, symbol).obj.model # "None"
    THEN ClientCandleCalls(w.is_connected) ELSE <<>>

\* FlattradeClient.search_stock: searchscrip once per exchange, then
\* get_quotes once per discovery token when the text contains "nifty"
ClientSearchCalls(connected, search_text) ==
    IF ~connected THEN <<>>
    ELSE [i \in 1..Len(exchanges_to_search) |-> "searchscrip"]
            \o (IF contains(lower(search_text), str_nifty)
                THEN [i \in 1..Len(major_indices_tokens) |-> "get_quotes"]
                ELSE <<>>)

(***************************************************************************)
(* The parallel search variant, FlattradeService.search_with_parallel_     *)
(* exchanges                                                               *)
(***************************************************************************)
\* the methods class FlattradeService defines: an attribute looked up on
\* the service that is none of them raises AttributeError
FlattradeServiceMethods ==
    { "__init__", "setup_client", "get_or_create_stock", "_generate_company_name",
      "get_live_quote", "get_ohlc_data", "search_stocks", "get_popular_stocks",
      "get_or_create_index", "_generate_index_name", "get_index_by_symbol",
      "validate_major_indices_tokens", "get_index_quote", "get_index_ohlc_data",
      "search_with_parallel_exchanges" }

\* search_with_parallel_exchanges: is the item classified as an index
IsIndexItemParallel(instname, symbol) ==
    instname = "INDEX" \/ contains(symbol, str_NIFTY)

\* the loop over the futures in the order they complete: a worker's list is
\* added, a worker that raised adds nothing
RECURSIVE GatherWorkers(_, _, _)
GatherWorkers(completed, workers, i) ==
    IF i > Len(completed) THEN <<>>
    ELSE (IF workers[completed[i]].kind = "list" THEN workers[completed[i]].items ELSE <<>>)
            \o GatherWorkers(completed, workers, i + 1)

\* the loop that converts the gathered items to rows, from position i
RECURSIVE ParallelMatches(_, _, _, _)
ParallelMatches(w, stocks, all_results, i) ==
    IF i > Len(all_results) THEN [w |-> w, ret |-> RetList(stocks)]
    ELSE IF \/ Get(all_results[i], "tsym", <<>>) = <<>>
            \/ Get(all_results[i], "token", "") = ""
    THEN ParallelMatches(w, stocks, all_results, i + 1)
    ELSE With(IF IsIndexItemParallel(Get(all_results[i], "instname", ""),
                                     Get(all_results[i], "tsym", <<>>))
              THEN get_or_create_index(w, Get(all_results[i], "tsym", <<>>),
                                       Get(all_results[i], "token", ""),
                                       Get(all_results[i], "cname",
                                           Get(all_results[i], "tsym", <<>>)))
              ELSE get_or_create_stock(w, Get(all_results[i], "tsym", <<>>),
                                       Get(all_results[i], "token", ""), "NSE",
                                       Get(all_results[i], "search_exchange", "NSE")),
              LAMBDA g : ParallelMatches(g.w, AppendIf(stocks, g.obj), all_results, i + 1))

\* FlattradeService.search_with_parallel_exchanges at time t.  The workers
\* are self._search_single_exchange and index discovery is
\* self._discover_indices: looking up a method the class does not define
\* raises AttributeError, which the except clause of the method turns into
\* the empty list.  workers[exchange] is what a worker hands back and
\* completed the order in which the workers finish.
search_with_parallel_exchanges(w, search_text, auth, completed, workers, t) ==
    With(EnsureConnected(w, auth, t),
         LAMBDA sc :
           IF ~sc.ok THEN [w |-> sc.w, ret |-> RetList(<<>>)]
           ELSE IF "_search_single_exchange" \notin FlattradeServiceMethods
           THEN [w |-> sc.w, ret |-> RetList(<<>>)]
           ELSE IF /\ contains(lower(search_text), str_nifty)
                   /\ "_discover_indices" \notin FlattradeServiceMethods
           THEN [w |-> sc.w, ret |-> RetList(<<>>)]
           ELSE ParallelMatches(sc.w, <<>>, GatherWorkers(completed, workers, 1), 1))

(***************************************************************************)
(* The search page, views.search_stocks                                    *)
(***************************************************************************)
\* the characters of the model's texts in the order of their codes
CharsByCode ==
    <<" ", "-">> \o DigitChars \o UpperChars \o <<"_">> \o LowerChars

Ord(c) == CHOOSE i \in 1..Len(CharsByCode) : CharsByCode[i] = c

\* a < b for two strings
RECURSIVE LessText(_, _)
LessText(a, b) ==
    IF a = <<>> THEN b # <<>>
    ELSE IF b = <<>> THEN FALSE
    ELSE IF a[1] = b[1] THEN LessText(Tail(a), Tail(b))
    ELSE Ord(a[1]) < Ord(b[1])

\* the rows of a Stock queryset in the order of Meta.ordering, by symbol
RECURSIVE OrderedBySymbol(_)
OrderedBySymbol(rows) ==
    IF rows = {} THEN <<>>
    ELSE With(CHOOSE x \in rows : \A y \in rows : ~LessText(y.symbol, x.symbol),
              LAMBDA x : <<x>> \o OrderedBySymbol(rows \ {x}))

\* the lookup __icontains
icontains(hay, needle) == contains(lower(hay), lower(needle))

\* str.replace(old, '') for a string old that is not empty
RECURSIVE remove(_, _)
remove(s, old) ==
    IF Len(s) < Len(old) THEN s
    ELSE IF SubSeq(s, 1, Len(old)) = old THEN remove(SubSeq(s, Len(old) + 1, Len(s)), old)
    ELSE <<s[1]>> \o remove(Tail(s), old)

\* FlattradeService._generate_company_name, the company_name a Stock row is
\* stored with
_generate_company_name(symbol, exchange) ==
    IF exchange \in {"NSE_INDEX", "INDICES"}
    THEN title(replace_char(replace_char(symbol, "-", " "), "_", " "))
    ELSE title(replace_char(remove(symbol, <<"-", "E", "Q">>), "-", " "))

\* Stock.objects.filter(Q(symbol__icontains=query) | Q(company_name__icontains=query))
db_stocks(w, query) ==
    OrderedBySymbol({ r \in w.Stock :
                        \/ icontains(r.symbol, query)
                        \/ icontains(_generate_company_name(r.symbol, r.exchange), query) })

\* f'search_{query.lower().replace(" ", "_")}'
SearchKey(query) ==
    <<"s", "e", "a", "r", "c", "h", "_">> \o replace_char(lower(query), " ", "_")

SEARCH_CACHE_TIMEOUT == 600

\* what the search page answers
Rendered(stocks) == [kind |-> "render", stocks |-> stocks]

\* the branch of the view that asks the service: the combined list is
\* cached and rendered; the service's None makes the comprehension over
\* api_stocks raise TypeError, which nothing catches.  The queryset is
\* evaluated by `not db_stocks` before the service is called, and only
\* after it when 'nifty' in query.lower() decides the branch.
SearchThroughService(w, query, auth, resp, quotes, t) ==
    With(search_stocks(w, query, auth, resp, quotes, t),
         LAMBDA api :
           IF api.ret.kind # "list"
           THEN [w |-> api.w, handed |-> <<"search_stocks">>, response |-> [kind |-> "raise"]]
           ELSE With(IF contains(lower(query), str_nifty) THEN db_stocks(api.w, query)
                     ELSE db_stocks(w, query),
                     LAMBDA db :
                       With(db \o SelectSeq(api.ret.items,
                                            LAMBDA s : ~\E j \in 1..Len(db) :
                                                           db[j].model = s.model /\ db[j] = s),
                            LAMBDA all_stocks :
                              [w |-> [api.w EXCEPT
                                        !.cache = cache_set(@, SearchKey(query),
                                                            RetList(all_stocks),
                                                            SEARCH_CACHE_TIMEOUT, t)],
                               handed |-> <<"search_stocks">>,
                               response |-> Rendered(all_stocks)])))

\* views.search_stocks at time t for the request's q parameter
view_search_stocks(w, query, auth, resp, quotes, t) ==
    IF query = <<>> THEN [w |-> w, handed |-> <<>>, response |-> Rendered(<<>>)]
    ELSE With(cache_get(w.cache, SearchKey(query), t),
              LAMBDA cached_results :
                IF cached_results # None /\ cached_results.items # <<>>
                THEN [w |-> w, handed |-> <<>>, response |-> Rendered(cached_results.items)]
                ELSE IF contains(lower(query), str_nifty) \/ db_stocks(w, query) = <<>>
                THEN SearchThroughService(w, query, auth, resp, quotes, t)
                ELSE [w |-> w, handed |-> <<>>, response |-> Rendered(db_stocks(w, query))])

(***************************************************************************)
(* FlattradeService.get_index_by_symbol                                    *)
(***************************************************************************)
\* the rows QuerySet.first() may give under Index.Meta.ordering = ['name']:
\* one of the least name, the database choosing among equal names
FirstByName(rows) ==
    { x \in rows : \A y \in rows : ~LessText(y.name, x.name) }

\* the row get_index_by_symbol inserts for a symbol of MAJOR_INDICES
MajorIndexRow(symbol) ==
    [model |-> "Index", symbol |-> symbol, token |-> MajorIndex(symbol).token,
     name |-> MajorIndex(symbol).name, exchange |-> MajorIndex(symbol).exchange]

\* FlattradeService.get_index_by_symbol; first is the row .first() gives
\* when several rows hold the symbol.  The IntegrityError of the insert is
\* none of the two exceptions the method catches.
get_index_by_symbol(w, symbol, first) ==
    IF InMajorIndices(symbol)
    THEN With(GetOrCreate(w.Index,
                          {r \in w.Index : r.symbol = symbol
                                             /\ r.token = MajorIndex(symbol).token},
                          MajorIndexRow(symbol),
                          IndexIntegrityError(w.Index, MajorIndexRow(symbol))),
              LAMBDA goc :
                IF goc.exc THEN [w |-> w, ret |-> RetRaise]
                ELSE [w |-> [w EXCEPT !.Index = goc.tbl], ret |-> RetObj(goc.obj)])
    ELSE With({r \in w.Index : r.symbol = symbol},
              LAMBDA hits :
                IF hits = {} THEN [w |-> w, ret |-> RetNone]
                ELSE IF Cardinality(hits) = 1
                THEN [w |-> w, ret |-> RetObj(CHOOSE r \in hits : TRUE)]
                ELSE [w |-> w, ret |-> RetObj(first)])

(***************************************************************************)
(* Two request threads inside the loop of get_ohlc_data: the statements    *)
(* QuerySet.get_or_create sends to the database, one at a time             *)
(***************************************************************************)
\* a candle table without unique_together: no insert is refused
NoIntegrityError(tbl, owner, timestamp, interval) == FALSE

\* OHLCData.Meta.unique_together = ['stock', 'timestamp', 'interval']: the
\* insert the database refuses
OHLCDataIntegrityError(tbl, owner, timestamp, interval) ==
    CandleStored(tbl, owner, timestamp, interval)

\* a thread that enters the loop over the entries of its answer
LoopThread(data) ==
    [pc |-> "get", data |-> data, i |-> 1, ohlc_records |-> <<>>, ret |-> RetNone,
     lost_race |-> FALSE]

\* the thread moves to entry i of its answer and on to the next statement:
\* entries whose time does not parse are skipped, an entry whose numbers do
\* not convert ends the call in its except clause, the end of the answer
\* returns ohlc_records
RECURSIVE NextEntry(_, _)
NextEntry(th, i) ==
    IF i > Len(th.data)
    THEN [th EXCEPT !.pc = "returned", !.i = i, !.ret = RetList(th.ohlc_records)]
    ELSE IF ~strptime(Get(th.data[i], "time", <<>>)).ok THEN NextEntry(th, i + 1)
    ELSE IF ~AllOk(OHLCDefaults(th.data[i]))
    THEN [th EXCEPT !.pc = "returned", !.i = i, !.ret = RetNone]
    ELSE [th EXCEPT !.pc = "get", !.i = i]

\* get_or_create, first statement: self.get(**kwargs); a row found is
\* returned with created False, else the insert is next
get_or_create_get(th, tbl, owner, interval) ==
    IF CandleStored(tbl, owner, strptime(th.data[th.i].time), interval)
    THEN [th |-> NextEntry(th, th.i + 1), tbl |-> tbl]
    ELSE [th |-> [th EXCEPT !.pc = "create"], tbl |-> tbl]

\* get_or_create, second statement: self.create(**params); the row is
\* inserted and appended to ohlc_records, or the database refuses it and
\* get_or_create looks the row up again
get_or_create_create(th, tbl, owner, interval) ==
    IF OHLCDataIntegrityError(tbl, owner, strptime(th.data[th.i].time), interval)
    THEN [th |-> [th EXCEPT !.pc = "get_again", !.lost_race = TRUE], tbl |-> tbl]
    ELSE With(CandleRow("OHLCData", tbl, owner, strptime(th.data[th.i].time), interval,
                        OHLCDefaults(th.data[th.i])),
              LAMBDA ohlc_record :
                [th |-> NextEntry([th EXCEPT !.ohlc_records = Append(@, ohlc_record)],
                                  th.i + 1),
                 tbl |-> Append(tbl, ohlc_record)])

\* get_or_create, the statement after IntegrityError: self.get(**kwargs)
\* again; the row found is returned with created False, and without one the
\* IntegrityError is raised again and ends the call in its except clause
get_or_create_get_again(th, tbl, owner, interval) ==
    IF CandleStored(tbl, owner, strptime(th.data[th.i].time), interval)
    THEN [th |-> NextEntry(th, th.i + 1), tbl |-> tbl]
    ELSE [th |-> [th EXCEPT !.pc = "returned", !.ret = RetNone], tbl |-> tbl]

(***************************************************************************)
(* The environment: what the vendor may answer, and what callers may ask   *)
(***************************************************************************)
\* answers of set_session
AuthResponses ==
    { Dict([stat |-> "Ok"]), RespTrue,
      Dict([stat |-> "Not_Ok", emsg |-> "Session Expired"]), RespNone, Raise }

q_nifty == <<"n", "i", "f", "t", "y">>

q_tcs == <<"t", "c", "s">>

SearchTexts == {q_nifty, q_tcs}

sym_TCS_EQ == <<"T", "C", "S", "-", "E", "Q">>

sym_TCS_BL == <<"T", "C", "S", "-", "B", "L">>

sym_TCS == <<"T", "C", "S">>

sym_NIFTYBEES_BL == <<"N", "I", "F", "T", "Y", "B", "E", "E", "S", "-", "B", "L">>

sym_Nifty_50 == <<"N", "i", "f", "t", "y", " ", "5", "0">>

\* items of a searchscrip answer
item_TCS_EQ == [tsym |-> sym_TCS_EQ, token |-> "11536", instname |-> "EQ"]

item_TCS_BL == [tsym |-> sym_TCS_BL, token |-> "11537", instname |-> "EQ"]

item_TCS_BSE == [tsym |-> sym_TCS, token |-> "11536", instname |-> "EQ"]

item_TCS_EQ_2 == [tsym |-> sym_TCS_EQ, token |-> "532540", instname |-> "EQ"]

item_NIFTYBEES_BL == [tsym |-> sym_NIFTYBEES_BL, token |-> "10576", instname |-> "EQ"]

item_Nifty_50 == [tsym |-> sym_Nifty_50, token |-> "26000", instname |-> "UNDIND",
                  cname |-> sym_Nifty_50]

SearchOk(values) == Dict([stat |-> "Ok", values |-> values])

SearchNotOk == Dict([stat |-> "Not_Ok", emsg |-> "No Data"])

\* answers of searchscrip, per exchange, in a service-level search
SearchResponses ==
    { [NSE |-> nse, BSE |-> bse, NFO |-> Raise, CDS |-> RespNone, MCX |-> SearchNotOk] :
        nse \in { Raise, SearchOk(<<item_TCS_EQ>>),
                  SearchOk(<<item_TCS_BL, item_NIFTYBEES_BL>>),
                  SearchOk(<<item_Nifty_50>>) },
        bse \in { SearchNotOk, SearchOk(<<item_TCS_BSE>>), SearchOk(<<item_TCS_EQ_2>>) } }

QuoteOk == Dict([stat |-> "Ok"])

QuoteNotOk == Dict([stat |-> "Not_Ok", emsg |-> "Invalid Token"])

\* answers of get_quotes to the four tokens index discovery tries
DiscoveryTokens == {"26000", "99926000", "26001", "99926001"}

DiscoveryQuotes ==
    { [t \in DiscoveryTokens |-> QuoteNotOk],
      [t \in DiscoveryTokens |-> IF t \in {"26000", "99926000"} THEN QuoteOk ELSE Raise],
      [t \in DiscoveryTokens |-> IF t = "26001" THEN QuoteOk ELSE RespNone] }


(***************************************************************************)
(* The state machine                                                       *)
(***************************************************************************)
EmptyWorld ==
    [Stock |-> {}, Index |-> {}, LiveQuote |-> <<>>, IndexQuote |-> <<>>,
     OHLCData |-> <<>>, IndexOHLCData |-> <<>>, UserSession |-> {},
     is_connected |-> FALSE, cache |-> {}]

\* the state FlattradeService.__init__ leaves, the vendor answering auth to
\* the connection attempt setup_client makes
Constructed(auth) ==
    \E sc \in {setup_client(EmptyWorld, auth, 0)} :
        /\ Stock = sc.w.Stock
        /\ Index = sc.w.Index
        /\ LiveQuote = sc.w.LiveQuote
        /\ IndexQuote = sc.w.IndexQuote
        /\ OHLCData = sc.w.OHLCData
        /\ IndexOHLCData = sc.w.IndexOHLCData
        /\ UserSession = sc.w.UserSession
        /\ is_connected = sc.w.is_connected
        /\ cache = sc.w.cache
        /\ threads = <<>>
        /\ _service_instance = 1
        /\ now = 0

Init ==
    \E auth \in AuthResponses :
        /\ Constructed(auth)
        /\ last = [op |-> "__init__", auth |-> auth]

\* a caller runs FlattradeService.search_stocks(search_text); index discovery
\* asks for quotes only when the text contains "nifty"
SearchStocks ==
    \E search_text \in SearchTexts, resp \in SearchResponses :
        \E quotes \in IF contains(lower(search_text), str_nifty)
                      THEN DiscoveryQuotes ELSE {[t \in DiscoveryTokens |-> RespNone]} :
            \E auth \in IF is_connected THEN {RespNone} ELSE AuthResponses :
                \E r \in {search_stocks(World, search_text, auth, resp, quotes, now)} :
                    /\ Commit(r.w)
                    /\ last' = [op |-> "search_stocks", search_text |-> search_text,
                                resp |-> resp, quotes |-> quotes,
                                connected |-> r.w.is_connected, ret |-> r.ret]
                    /\ UNCHANGED now

NextSearch == SearchStocks

SpecSearch == Init /\ [][NextSearch]_vars

(***************************************************************************)
(* The client's search on its own: FlattradeClient.search_stock called     *)
(* with every combination of per-exchange answers                          *)
(***************************************************************************)
\* what searchscrip may answer on one exchange: an exception, None, a
\* truthy value that is no dict, a refusal, successes
ExchangeAnswers ==
    { Raise, RespNone, RespTrue, SearchNotOk,
      SearchOk(<<item_TCS_EQ>>), SearchOk(<<item_TCS_BL, item_NIFTYBEES_BL>>) }

FanOutResponses == [{"NSE", "BSE", "NFO", "CDS", "MCX"} -> ExchangeAnswers]

\* the service as constructed, and a search about to be made with the
\* answers the vendor will give to it
InitFanOut ==
    \E auth \in AuthResponses, search_text \in SearchTexts, resp \in FanOutResponses :
        \E quotes \in IF contains(lower(search_text), str_nifty)
                      THEN DiscoveryQuotes ELSE {[t \in DiscoveryTokens |-> RespNone]} :
            /\ Constructed(auth)
            /\ last = [op |-> "call search_stock", search_text |-> search_text,
                       resp |-> resp, quotes |-> quotes]

\* the call runs: FlattradeClient.search_stock(search_text)
ClientSearchStock ==
    /\ last.op = "call search_stock"
    /\ last' = [op |-> "search_stock", search_text |-> last.search_text,
                resp |-> last.resp, quotes |-> last.quotes, connected |-> is_connected,
                ret |-> search_stock(is_connected, last.search_text, last.resp, last.quotes)]
    /\ UNCHANGED <<_service_instance, threads, Stock, Index, LiveQuote, IndexQuote, OHLCData, IndexOHLCData,
                   UserSession, is_connected, cache, now>>

NextFanOut == ClientSearchStock

SpecFanOut == InitFanOut /\ [][NextFanOut]_vars

(***************************************************************************)
(* Quote fetches: get_live_quote and get_index_quote called with every     *)
(* kind of vendor answer, time passing between the calls                   *)
(***************************************************************************)
d_100_5 == <<"1", "0", "0", ".", "5">>

d_99 == <<"9", "9">>

d_101 == <<"1", "0", "1">>

d_98 == <<"9", "8">>

d_1000 == <<"1", "0", "0", "0">>

d_1_5 == <<"1", ".", "5">>

d_abc == <<"a", "b", "c">>

d_1234_5 == <<"1", "2", "3", "4", ".", "5">>

sym_11536 == <<"1", "1", "5", "3", "6">>

\* the success of the documentation's example
quote_example ==
    Dict([stat |-> "Ok", token |-> "11536", lp |-> d_100_5, o |-> d_99, h |-> d_101,
          l |-> d_98, v |-> d_1000, c |-> d_1_5, prctyp |-> d_1_5])

\* successes with a field that is no number, a volume that is no integer,
\* and a percentage wider than its column
quote_bad_price == Dict([stat |-> "Ok", token |-> "11536", lp |-> d_abc])

quote_bad_volume == Dict([stat |-> "Ok", token |-> "11536", lp |-> d_100_5, v |-> d_1_5])

quote_wide_percent ==
    Dict([stat |-> "Ok", token |-> "11536", lp |-> d_100_5, prctyp |-> d_1234_5])

\* what get_quotes may answer: successes (QuoteOk has no field but stat),
\* an exception, None, a truthy value that is no dict, a refusal
QuoteAnswers ==
    { quote_example, QuoteOk, quote_bad_price, quote_bad_volume, quote_wide_percent,
      Raise, RespNone, RespTrue, QuoteNotOk }

\* what searchscrip may answer when a symbol's token is looked up
TokenSearchAnswers == { SearchOk(<<item_TCS_EQ>>), SearchNotOk, Raise }

\* the answers that matter to a quote fetch of the symbol: no search is made
\* for a symbol of digits or of MAJOR_INDICES, and no quote is asked for
\* when the search finds no token
QuoteInputs(symbol, direct) ==
    IF direct \/ isdigit(symbol)
    THEN {[search |-> RespNone, quote |-> q] : q \in QuoteAnswers}
    ELSE {[search |-> SearchOk(<<item_TCS_EQ>>), quote |-> q] : q \in QuoteAnswers}
            \cup {[search |-> s, quote |-> RespNone] : s \in {SearchNotOk, Raise}}

StockSymbols == {sym_TCS_EQ, sym_11536, sym_TCS_BL}

IndexSymbols == {s_NIFTY, sym_Nifty_50}

MaxQuoteRows == 2

MaxTicks == 1

QuoteRows == Len(LiveQuote) + Len(IndexQuote)

\* the answer to a reconnection attempt, made only by a disconnected service
AuthInputs == IF is_connected THEN {RespNone} ELSE AuthResponses

\* a caller runs FlattradeService.get_live_quote(symbol)
GetLiveQuote ==
    /\ QuoteRows < MaxQuoteRows
    /\ \E symbol \in StockSymbols, auth \in AuthInputs :
        \E inp \in QuoteInputs(symbol, FALSE) :
            \E r \in {get_live_quote(World, symbol, auth, inp.search, inp.quote, now)} :
                /\ Commit(r.w)
                /\ last' = [op |-> "get_live_quote", symbol |-> symbol,
                            search |-> inp.search, quote |-> inp.quote,
                            connected |-> r.w.is_connected, cached |-> FALSE,
                            stored |-> \E s \in Stock : s.symbol = symbol,
                            before |-> [LiveQuote |-> LiveQuote, IndexQuote |-> IndexQuote],
                            ret |-> r.ret, calls |-> r.calls]
                /\ UNCHANGED now

\* a caller runs FlattradeService.get_index_quote(symbol)
GetIndexQuote ==
    /\ QuoteRows < MaxQuoteRows
    /\ \E symbol \in IndexSymbols, auth \in AuthInputs :
        \E inp \in QuoteInputs(symbol, InMajorIndices(symbol)) :
            \E r \in {get_index_quote(World, symbol, auth, inp.search, inp.quote, now)} :
                /\ Commit(r.w)
                /\ last' = [op |-> "get_index_quote", symbol |-> symbol,
                            search |-> inp.search, quote |-> inp.quote,
                            connected |-> r.w.is_connected,
                            cached |-> cache_get(cache, IndexQuoteKey(symbol), now).model # "None",
                            stored |-> \E s \in Index : s.symbol = symbol,
                            before |-> [LiveQuote |-> LiveQuote, IndexQuote |-> IndexQuote],
                            ret |-> r.ret, calls |-> r.calls]
                /\ UNCHANGED now

\* time passes
Tick ==
    /\ now < MaxTicks * INDEX_QUOTE_TIMEOUT
    /\ now' = now + INDEX_QUOTE_TIMEOUT
    /\ UNCHANGED <<_service_instance, threads, Stock, Index, LiveQuote, IndexQuote, OHLCData, IndexOHLCData,
                   UserSession, is_connected, cache, last>>

NextQuotes == GetLiveQuote \/ GetIndexQuote \/ Tick

SpecQuotes == Init /\ [][NextQuotes]_vars

(***************************************************************************)
(* Candle fetches: get_ohlc_data and get_index_ohlc_data called again and  *)
(* again for a stock and an index, with overlapping vendor answers         *)
(***************************************************************************)
t_0915 == <<"0", "1", "-", "0", "1", "-", "2", "0", "2", "5", " ", "0", "9", ":", "1", "5", ":", "0", "0">>

t_0920 == <<"0", "1", "-", "0", "1", "-", "2", "0", "2", "5", " ", "0", "9", ":", "2", "0", ":", "0", "0">>

t_0925 == <<"0", "1", "-", "0", "1", "-", "2", "0", "2", "5", " ", "0", "9", ":", "2", "5", ":", "0", "0">>

t_0915_short == <<"1", "-", "1", "-", "2", "0", "2", "5", " ", "9", ":", "1", "5", ":", "0">>

t_not_a_date == <<"n", "o", "t", "-", "a", "-", "d", "a", "t", "e">>

\* an entry of the vendor's answer for the time string
candle(time) ==
    [time |-> time, into |-> d_99, inth |-> d_101, intl |-> d_98, intc |-> d_100_5,
     v |-> d_1000]

\* an entry whose open price is no number
candle_bad_price(time) == [candle(time) EXCEPT !.into = d_abc]

\* what get_time_price_series may answer: lists that overlap, a success in
\* dict form, a list with an entry whose time does not parse, a list with
\* an entry whose price is no number, a list with both, a list naming one
\* moment twice, a success without data, and the failures
CandleAnswers ==
    { RespList(<<candle(t_0915), candle(t_0920)>>),
      Dict([stat |-> "Ok", data |-> <<candle(t_0920), candle(t_0925)>>]),
      RespList(<<candle(t_not_a_date), candle(t_0925)>>),
      RespList(<<candle(t_0915), candle_bad_price(t_0920), candle(t_0925)>>),
      RespList(<<candle(t_not_a_date), candle_bad_price(t_0915), candle(t_0920)>>),
      RespList(<<candle(t_0915_short), candle(t_0915)>>),
      Dict([stat |-> "Ok"]),
      RespList(<<>>), Raise, RespNone, RespTrue,
      Dict([stat |-> "Not_Ok", emsg |-> "no data"]) }

CandleIntervals == {5, 15}

MaxCandleRows == 3

CandleRows == Len(OHLCData) + Len(IndexOHLCData)

\* the service constructed and a search for "tcs" made, which stores the
\* stock TCS-EQ when the service is connected and NSE knows the symbol
InitCandles ==
    \E auth \in AuthResponses, nse \in {SearchOk(<<item_TCS_EQ>>), SearchNotOk} :
        \E r \in {search_stocks(setup_client(EmptyWorld, auth, 0).w, q_tcs, RespNone,
                                [e \in {"NSE", "BSE", "NFO", "CDS", "MCX"} |->
                                    IF e = "NSE" THEN nse ELSE SearchNotOk],
                                [t \in DiscoveryTokens |-> RespNone], 0)} :
            /\ Stock = r.w.Stock
            /\ Index = r.w.Index
            /\ LiveQuote = r.w.LiveQuote
            /\ IndexQuote = r.w.IndexQuote
            /\ OHLCData = r.w.OHLCData
            /\ IndexOHLCData = r.w.IndexOHLCData
            /\ UserSession = r.w.UserSession
            /\ is_connected = r.w.is_connected
            /\ cache = r.w.cache
            /\ threads = <<>>
            /\ _service_instance = 1
            /\ now = 0
            /\ last = [op |-> "search_stocks", search_text |-> q_tcs, ret |-> r.ret]

\* a caller runs FlattradeService.get_ohlc_data(symbol, interval)
GetOhlcData ==
    /\ CandleRows < MaxCandleRows
    /\ \E interval \in CandleIntervals, auth \in AuthInputs, resp \in CandleAnswers :
        \E r \in {get_ohlc_data(World, sym_TCS_EQ, interval, auth, resp, now)} :
            /\ Commit(r.w)
            /\ last' = [op |-> "get_ohlc_data", symbol |-> sym_TCS_EQ, owner |-> sym_TCS_EQ,
                        interval |-> interval, resp |-> resp,
                        fetched |-> r.w.is_connected /\ \E s \in Stock : s.symbol = sym_TCS_EQ,
                        before |-> OHLCData, ret |-> r.ret]
            /\ UNCHANGED now

\* a caller runs FlattradeService.get_index_ohlc_data(symbol, interval)
GetIndexOhlcData ==
    /\ CandleRows < MaxCandleRows
    /\ \E interval \in CandleIntervals, auth \in AuthInputs, resp \in CandleAnswers :
        \E r \in {get_index_ohlc_data(World, s_NIFTY, interval, auth, resp, now)} :
            /\ Commit(r.w)
            /\ last' = [op |-> "get_index_ohlc_data", symbol |-> s_NIFTY,
                        owner |-> MajorIndex(s_NIFTY).token,
                        interval |-> interval, resp |-> resp,
                        fetched |-> r.w.is_connected,
                        before |-> IndexOHLCData, ret |-> r.ret]
            /\ UNCHANGED now

NextCandles == GetOhlcData \/ GetIndexOhlcData

SpecCandles == InitCandles /\ [][NextCandles]_vars

(***************************************************************************)
(* The views' interval parameter: each of the six views handles a request  *)
(* whose interval is absent or any short text                              *)
(***************************************************************************)
IntervalChars == {"0", "1", "3", "5", "6", "x", "-"}

MaxIntervalLen == 2

\* the texts of at most n characters
RECURSIVE Texts(_)
Texts(n) ==
    IF n = 0 THEN {<<>>}
    ELSE Texts(n - 1) \cup {Append(s, c) : s \in Texts(n - 1), c \in IntervalChars}

RawIntervals == {NoParameter} \cup {Parameter(s) : s \in Texts(MaxIntervalLen)}

\* the vendor's answers to the calls a view's ingestion makes
ViewEnvs ==
    [candles : {RespList(<<candle(t_0920)>>), RespNone},
     search : {SearchOk(<<item_TCS_EQ>>)},
     quote : {quote_example, RespNone}]

\* 09:22:00 on 1 January 2025, in seconds since that day's midnight
REQUEST_TIME == 33720

\* all five exchanges answering that they know nothing
NothingFound == [e \in {"NSE", "BSE", "NFO", "CDS", "MCX"} |-> SearchNotOk]

\* a connected service after a search for "tcs" that stored TCS-EQ and a
\* search for "nifty" that stored the indices of the static table
SearchedWorld ==
    search_stocks(
        search_stocks(setup_client(EmptyWorld, Dict([stat |-> "Ok"]), REQUEST_TIME).w,
                      q_tcs, RespNone,
                      [NothingFound EXCEPT !["NSE"] = SearchOk(<<item_TCS_EQ>>)],
                      [t \in DiscoveryTokens |-> RespNone], REQUEST_TIME).w,
        q_nifty, RespNone, [NothingFound EXCEPT !["NSE"] = SearchOk(<<item_TCS_EQ>>)],
        [t \in DiscoveryTokens |-> RespNone], REQUEST_TIME).w

\* the same after the five-minute data of TCS-EQ and NIFTY was refreshed
RefreshedWorld ==
    refresh_index_data_async(
        refresh_stock_data(SearchedWorld,
                           CHOOSE s \in SearchedWorld.Stock : s.symbol = sym_TCS_EQ,
                           NoParameter, RespNone,
                           [candles |-> RespList(<<candle(t_0920)>>),
                            search |-> SearchOk(<<item_TCS_EQ>>), quote |-> quote_example],
                           REQUEST_TIME).w,
        CHOOSE i \in SearchedWorld.Index : i.symbol = s_NIFTY,
        NoParameter, RespNone,
        [candles |-> RespList(<<candle(t_0920)>>),
         search |-> SearchOk(<<item_TCS_EQ>>), quote |-> quote_example],
        REQUEST_TIME).w

\* a request about to be handled: its interval parameter, whether its id
\* names a stored instrument, and the answers the vendor will give
InitInterval ==
    \E w \in {SearchedWorld, RefreshedWorld}, raw \in RawIntervals, env \in ViewEnvs,
       found \in BOOLEAN :
        /\ Stock = w.Stock
        /\ Index = w.Index
        /\ LiveQuote = w.LiveQuote
        /\ IndexQuote = w.IndexQuote
        /\ OHLCData = w.OHLCData
        /\ IndexOHLCData = w.IndexOHLCData
        /\ UserSession = w.UserSession
        /\ is_connected = w.is_connected
        /\ cache = w.cache
        /\ threads = <<>>
        /\ _service_instance = 1
        /\ now = REQUEST_TIME
        /\ last = [op |-> "request", raw |-> raw, env |-> env, found |-> found]

\* the row the request's id names
RequestedStock ==
    IF last.found THEN CHOOSE s \in Stock : s.symbol = sym_TCS_EQ ELSE None

RequestedIndex ==
    IF last.found THEN CHOOSE i \in Index : i.symbol = s_NIFTY ELSE None

\* the view has handled the request
Handled(view, r) ==
    /\ Commit(r.w)
    /\ last' = [op |-> view, raw |-> last.raw, env |-> last.env, found |-> last.found,
                handed |-> r.handed, response |-> r.response]
    /\ UNCHANGED now

StockDetail ==
    /\ last.op = "request"
    /\ \E r \in {stock_detail(World, RequestedStock, last.raw, RespNone, last.env, now)} :
        Handled("stock_detail", r)

IndexDetail ==
    /\ last.op = "request"
    /\ \E r \in {index_detail(World, RequestedIndex, last.raw, RespNone, last.env, now)} :
        Handled("index_detail", r)

ViewGetOhlcData ==
    /\ last.op = "request"
    /\ \E r \in {view_get_ohlc_data(World, RequestedStock, last.raw, RespNone, last.env, now)} :
        Handled("get_ohlc_data", r)

RefreshStockData ==
    /\ last.op = "request"
    /\ \E r \in {refresh_stock_data(World, RequestedStock, last.raw, RespNone, last.env, now)} :
        Handled("refresh_stock_data", r)

RefreshDataAsync ==
    /\ last.op = "request"
    /\ \E r \in {refresh_data_async(World, RequestedStock, last.raw, RespNone, last.env, now)} :
        Handled("refresh_data_async", r)

RefreshIndexDataAsync ==
    /\ last.op = "request"
    /\ \E r \in {refresh_index_data_async(World, RequestedIndex, last.raw, RespNone,
                                          last.env, now)} :
        Handled("refresh_index_data_async", r)

NextInterval ==
    \/ StockDetail \/ IndexDetail \/ ViewGetOhlcData
    \/ RefreshStockData \/ RefreshDataAsync \/ RefreshIndexDataAsync

SpecInterval == InitInterval /\ [][NextInterval]_vars

(***************************************************************************)
(* Authentication: the service is constructed over a database that may     *)
(* hold a session row of an earlier run, is constructed again when the     *)
(* process restarts, and reconnects at the start of an operation that      *)
(* finds the client not connected                                          *)
(***************************************************************************)
\* answers of set_session: the three shapes, and other values
SessionAnswers ==
    AuthResponses \cup { RespFalse, Dict([emsg |-> "Invalid Input"]), RespList(<<>>) }

TOKEN_OF_YESTERDAY == "token-of-yesterday"

\* the session rows an earlier run may have left: none, an active row with
\* the token of that run, an inactive row
PriorSessions ==
    { {},
      {[user_id |-> USER_ID, token |-> TOKEN_OF_YESTERDAY, is_active |-> TRUE,
        expires_at |-> 0 - SESSION_SECONDS]},
      {[user_id |-> USER_ID, token |-> TOKEN, is_active |-> FALSE,
        expires_at |-> SESSION_SECONDS \div 2]} }

MaxAuthTicks == 2

MaxAuthRows == 1

\* what `last` records of an operation: whether the client was connected
\* when it began, the vendor's answer to the set_session it made if it made
\* one, the time, the endpoints it reached, and what it returned
Operation(op, auth, contacted, ret) ==
    [op |-> op, connected_before |-> is_connected,
     attempted |-> ~is_connected, auth |-> auth, t |-> now,
     sessions_before |-> UserSession, contacted |-> contacted, ret |-> ret]

InitAuth ==
    \E sessions \in PriorSessions, auth \in SessionAnswers :
        \E sc \in {setup_client([EmptyWorld EXCEPT !.UserSession = sessions], auth, 0)} :
            /\ Stock = sc.w.Stock
            /\ Index = sc.w.Index
            /\ LiveQuote = sc.w.LiveQuote
            /\ IndexQuote = sc.w.IndexQuote
            /\ OHLCData = sc.w.OHLCData
            /\ IndexOHLCData = sc.w.IndexOHLCData
            /\ UserSession = sc.w.UserSession
            /\ is_connected = sc.w.is_connected
            /\ cache = sc.w.cache
            /\ threads = <<>>
            /\ _service_instance = 1
            /\ now = 0
            /\ last = [op |-> "__init__", connected_before |-> FALSE, attempted |-> TRUE,
                       auth |-> auth, t |-> 0, sessions_before |-> sessions,
                       contacted |-> <<"set_session">>,
                       ret |-> IF sc.ok THEN RespTrue ELSE RespFalse]

\* the process starts again: FlattradeService() is constructed with a new
\* client over the database as it is
Restart ==
    \E auth \in SessionAnswers :
        \E sc \in {setup_client([World EXCEPT !.is_connected = FALSE], auth, now)} :
            /\ Commit(sc.w)
            /\ last' = [op |-> "__init__", connected_before |-> FALSE, attempted |-> TRUE,
                        auth |-> auth, t |-> now, sessions_before |-> UserSession,
                        contacted |-> <<"set_session">>,
                        ret |-> IF sc.ok THEN RespTrue ELSE RespFalse]
            /\ UNCHANGED now

\* the vendor's answers to a reconnection: none is asked for when the client
\* is connected
ReconnectAnswers ==
    IF is_connected THEN {RespNone}
    ELSE { Dict([stat |-> "Ok"]), RespTrue,
           Dict([stat |-> "Not_Ok", emsg |-> "Session Expired"]), Raise }

AuthGetLiveQuote ==
    /\ Len(LiveQuote) < MaxAuthRows
    /\ \E auth \in ReconnectAnswers, quote \in {quote_example, Raise} :
        \E r \in {get_live_quote(World, sym_TCS_EQ, auth, SearchOk(<<item_TCS_EQ>>), quote, now)} :
            /\ Commit(r.w)
            /\ last' = Operation("get_live_quote", auth, ReconnectCalls(World) \o r.calls, r.ret)
            /\ UNCHANGED now

AuthGetIndexQuote ==
    /\ Len(IndexQuote) < MaxAuthRows
    /\ \E auth \in ReconnectAnswers, quote \in {quote_example, QuoteNotOk} :
        \E r \in {get_index_quote(World, s_NIFTY, auth, RespNone, quote, now)} :
            /\ Commit(r.w)
            /\ last' = Operation("get_index_quote", auth, ReconnectCalls(World) \o r.calls, r.ret)
            /\ UNCHANGED now

AuthGetOhlcData ==
    \E auth \in ReconnectAnswers, resp \in {RespList(<<candle(t_0915)>>), RespNone} :
        \E r \in {get_ohlc_data(World, sym_TCS_EQ, 5, auth, resp, now)} :
            /\ Commit(r.w)
            /\ last' = Operation("get_ohlc_data", auth,
                                 ReconnectCalls(World) \o StockCandleCalls(r.w, sym_TCS_EQ),
                                 r.ret)
            /\ UNCHANGED now

AuthGetIndexOhlcData ==
    \E auth \in ReconnectAnswers, resp \in {RespList(<<candle(t_0915)>>), Raise} :
        \E r \in {get_index_ohlc_data(World, s_NIFTY, 5, auth, resp, now)} :
            /\ Commit(r.w)
            /\ last' = Operation("get_index_ohlc_data", auth,
                                 ReconnectCalls(World) \o IndexCandleCalls(r.w, s_NIFTY),
                                 r.ret)
            /\ UNCHANGED now

AuthSearchStocks ==
    \E auth \in ReconnectAnswers, nse \in {SearchOk(<<item_TCS_EQ>>), Raise} :
        \E r \in {search_stocks(World, q_tcs, auth,
                                [e \in {"NSE", "BSE", "NFO", "CDS", "MCX"} |->
                                    IF e = "NSE" THEN nse ELSE SearchNotOk],
                                [t \in DiscoveryTokens |-> RespNone], now)} :
            /\ Commit(r.w)
            /\ last' = Operation("search_stocks", auth,
                                 ReconnectCalls(World)
                                    \o ClientSearchCalls(r.w.is_connected, q_tcs),
                                 r.ret)
            /\ UNCHANGED now

\* four hours pass
AuthTick ==
    /\ now < MaxAuthTicks * (SESSION_SECONDS \div 2)
    /\ now' = now + SESSION_SECONDS \div 2
    /\ UNCHANGED <<_service_instance, threads, Stock, Index, LiveQuote, IndexQuote, OHLCData, IndexOHLCData,
                   UserSession, is_connected, cache, last>>

NextAuth ==
    \/ Restart
    \/ AuthGetLiveQuote
    \/ AuthGetIndexQuote
    \/ AuthGetOhlcData
    \/ AuthGetIndexOhlcData
    \/ AuthSearchStocks
    \/ AuthTick

SpecAuth == InitAuth /\ [][NextAuth]_vars

(***************************************************************************)
(* The freshness guard: the detail pages of a stock and of an index are    *)
(* requested again and again while time passes                             *)
(***************************************************************************)
MaxFreshTicks == 3

\* half the guard's window passes between two requests
FRESH_STEP == 150

MaxFreshRows == 3

\* the candles and quotes stored
FreshRows == Len(OHLCData) + Len(LiveQuote) + Len(IndexOHLCData) + Len(IndexQuote)

PageIntervals == {NoParameter, Parameter(<<"1", "5">>)}

InitFresh ==
    \E w \in {SearchedWorld} :
        /\ Stock = w.Stock
        /\ Index = w.Index
        /\ LiveQuote = w.LiveQuote
        /\ IndexQuote = w.IndexQuote
        /\ OHLCData = w.OHLCData
        /\ IndexOHLCData = w.IndexOHLCData
        /\ UserSession = w.UserSession
        /\ is_connected = w.is_connected
        /\ cache = w.cache
        /\ threads = <<>>
        /\ _service_instance = 1
        /\ now = REQUEST_TIME
        /\ last = [op |-> "search_stocks"]

\* what `last` records of a page request: the instrument, the interval
\* parameter, the time, the candles and quotes stored before it, and the
\* fetches the view made
PageRequest(view, owner, raw, candles, quotes, r) ==
    [op |-> view, owner |-> owner, raw |-> raw, t |-> now,
     before |-> [candles |-> candles, quotes |-> quotes],
     handed |-> r.handed, response |-> r.response]

StockDetailPage ==
    /\ FreshRows < MaxFreshRows
    /\ \E raw \in PageIntervals, env \in ViewEnvs :
        \E r \in {stock_detail(World, CHOOSE s \in Stock : s.symbol = sym_TCS_EQ, raw,
                               RespNone, env, now)} :
            /\ Commit(r.w)
            /\ last' = PageRequest("stock_detail", sym_TCS_EQ, raw, OHLCData, LiveQuote, r)
            /\ UNCHANGED now

IndexDetailPage ==
    /\ FreshRows < MaxFreshRows
    /\ \E raw \in PageIntervals, env \in ViewEnvs :
        \E r \in {index_detail(World, CHOOSE i \in Index : i.symbol = s_NIFTY, raw,
                               RespNone, env, now)} :
            /\ Commit(r.w)
            /\ last' = PageRequest("index_detail", MajorIndex(s_NIFTY).token, raw,
                                   IndexOHLCData, IndexQuote, r)
            /\ UNCHANGED now

FreshTick ==
    /\ now < REQUEST_TIME + MaxFreshTicks * FRESH_STEP
    /\ now' = now + FRESH_STEP
    /\ UNCHANGED <<_service_instance, threads, Stock, Index, LiveQuote, IndexQuote, OHLCData, IndexOHLCData,
                   UserSession, is_connected, cache, last>>

NextFresh == StockDetailPage \/ IndexDetailPage \/ FreshTick

SpecFresh == InitFresh /\ [][NextFresh]_vars

(***************************************************************************)
(* The two search variants: a search request is answered by the            *)
(* sequential search_stocks and by search_with_parallel_exchanges          *)
(***************************************************************************)
sym_SENSEX == <<"S", "E", "N", "S", "E", "X">>

sym_Nifty_Midcap == <<"N", "i", "f", "t", "y", " ", "M", "i", "d", "c", "a", "p">>

sym_INDIAVIX == <<"I", "N", "D", "I", "A", "V", "I", "X">>

sym_INFY == <<"I", "N", "F", "Y">>

\* an index by its instrument type, an index by its name only, an item
\* typed as the discovery types its items, and a stock
item_SENSEX == [tsym |-> sym_SENSEX, token |-> "1", instname |-> "UNDIND"]

item_Nifty_Midcap == [tsym |-> sym_Nifty_Midcap, token |-> "26121", instname |-> "EQ"]

item_INDIAVIX == [tsym |-> sym_INDIAVIX, token |-> "26017", instname |-> "INDEX"]

item_INFY == [tsym |-> sym_INFY, token |-> "500209", instname |-> "EQ"]

\* what the exchanges answer to the search of a request
ParallelAnswers ==
    { [NothingFound EXCEPT !["NSE"] = nse, !["BSE"] = bse, !["MCX"] = mcx] :
        nse \in { Raise, SearchOk(<<item_TCS_EQ>>), SearchOk(<<item_SENSEX>>),
                  SearchOk(<<item_Nifty_Midcap>>), SearchOk(<<item_INDIAVIX, item_TCS_EQ>>) },
        bse \in { SearchNotOk, SearchOk(<<item_INFY>>), Raise },
        mcx \in { RespNone, Raise } }

\* a search request about to be handled by a service that connected at its
\* construction or did not
InitParallel ==
    \E auth \in {Dict([stat |-> "Ok"]), Raise}, search_text \in SearchTexts,
       resp \in ParallelAnswers :
        /\ Constructed(auth)
        /\ last = [op |-> "request", search_text |-> search_text, resp |-> resp]

\* what a worker hands back for an exchange: the tagged results of the
\* exchange's answer, an exception when the vendor call raised or timed out
WorkerResults(resp) ==
    [e \in {"NSE", "BSE", "NFO", "CDS", "MCX"} |->
        IF resp[e].kind = "raise" THEN Raise ELSE RespList(ExchangeResults(e, resp[e]))]

\* the orders in which the workers finish
CompletionOrders ==
    { <<"NSE", "BSE", "NFO", "CDS", "MCX">>, <<"MCX", "CDS", "NFO", "BSE", "NSE">> }

\* what `last` records of a search: the request, whether the service was
\* connected for it, the instruments stored before it, what it returned
Searched(variant, r) ==
    [op |-> variant, search_text |-> last.search_text, resp |-> last.resp,
     connected |-> r.w.is_connected, before |-> [Stock |-> Stock, Index |-> Index],
     ret |-> r.ret]

SequentialSearch ==
    /\ last.op = "request"
    /\ \E r \in {search_stocks(World, last.search_text, Dict([stat |-> "Ok"]), last.resp,
                               [t \in DiscoveryTokens |-> RespNone], now)} :
        /\ Commit(r.w)
        /\ last' = Searched("search_stocks", r)
        /\ UNCHANGED now

ParallelSearch ==
    /\ last.op = "request"
    /\ \E completed \in CompletionOrders :
        \E r \in {search_with_parallel_exchanges(World, last.search_text,
                                                 Dict([stat |-> "Ok"]), completed,
                                                 WorkerResults(last.resp), now)} :
            /\ Commit(r.w)
            /\ last' = Searched("search_with_parallel_exchanges", r)
            /\ UNCHANGED now

NextParallel == SequentialSearch \/ ParallelSearch

SpecParallel == InitParallel /\ [][NextParallel]_vars

(***************************************************************************)
(* The search page requested again and again while time passes             *)
(***************************************************************************)
q_TCS == <<"T", "C", "S">>

q_nifty_50 == <<"n", "i", "f", "t", "y", " ", "5", "0">>

q_nifty_50_underscore == <<"n", "i", "f", "t", "y", "_", "5", "0">>

PageQueries == {q_tcs, q_TCS, q_nifty_50, q_nifty_50_underscore}

PageKeys == { SearchKey(q) : q \in PageQueries }

\* the exchanges' answers to the search of a page request: a stock found,
\* nothing found, every call failing
PageAnswers ==
    { [NothingFound EXCEPT !["NSE"] = SearchOk(<<item_TCS_EQ>>)],
      NothingFound,
      [e \in {"NSE", "BSE", "NFO", "CDS", "MCX"} |-> Raise] }

MaxPageTicks == 2

\* half the cache's timeout passes between two requests
PAGE_STEP == 300

\* no vendor search made yet
NEVER == 0 - 1

InitSearchPage ==
    \E auth \in {Dict([stat |-> "Ok"]), Raise} :
        /\ Constructed(auth)
        /\ last = [op |-> "__init__",
                   searched_at |-> [k \in PageKeys |-> NEVER],
                   combined |-> [k \in PageKeys |-> RetNone]]

\* a visitor requests the search page with the query.  `last` records the
\* request, what the view did, and for every key when the view last asked
\* the service and the combined list it then built (none when it built
\* none).
SearchPage ==
    \E query \in PageQueries, resp \in PageAnswers :
        \E auth \in IF is_connected THEN {RespNone} ELSE {Dict([stat |-> "Ok"]), Raise} :
            \E r \in {view_search_stocks(World, query, auth, resp,
                                         [t \in DiscoveryTokens |-> RespNone], now)} :
                /\ Commit(r.w)
                /\ last' = [op |-> "search_page", query |-> query, t |-> now,
                            handed |-> r.handed, response |-> r.response,
                            before |-> [searched_at |-> last.searched_at,
                                        combined |-> last.combined],
                            searched_at |->
                                IF r.handed # <<>>
                                THEN [last.searched_at EXCEPT ![SearchKey(query)] = now]
                                ELSE last.searched_at,
                            combined |->
                                IF r.handed # <<>>
                                THEN [last.combined EXCEPT ![SearchKey(query)] =
                                        IF r.response.kind = "render"
                                        THEN RetList(r.response.stocks) ELSE RetNone]
                                ELSE last.combined]
                /\ UNCHANGED now

PageTick ==
    /\ now < MaxPageTicks * PAGE_STEP
    /\ now' = now + PAGE_STEP
    /\ UNCHANGED <<_service_instance, threads, Stock, Index, LiveQuote, IndexQuote, OHLCData, IndexOHLCData,
                   UserSession, is_connected, cache, last>>

NextSearchPage == SearchPage \/ PageTick

SpecSearchPage == InitSearchPage /\ [][NextSearchPage]_vars

(***************************************************************************)
(* Index records: the four ways the service hands one out, called for a    *)
(* symbol of MAJOR_INDICES and for a vendor symbol that differs from it by *)
(* a space, while the vendor supplies tokens and names of its own          *)
(***************************************************************************)
sym_NIFTY_BANK_spaced == <<"N", "I", "F", "T", "Y", " ", "B", "A", "N", "K">>

n_BANKNIFTY == <<"B", "A", "N", "K", "N", "I", "F", "T", "Y">>

q_bank == <<"b", "a", "n", "k">>

RecordSymbols == {s_NIFTY_BANK, sym_NIFTY_BANK_spaced}

\* the token of MAJOR_INDICES for NIFTY_BANK and two others
VendorTokens == {"26009", "99926009", "99926010"}

\* no name given, and the vendor's
VendorNames == {<<>>, n_BANKNIFTY}

\* what the vendor lists for the two symbols
VendorItems ==
    { [tsym |-> symbol, token |-> token, instname |-> "UNDIND", cname |-> n_BANKNIFTY] :
        symbol \in RecordSymbols, token \in {"99926009", "99926010"} }

\* the vendor's quote under a token of its own
VendorQuote(token) == Dict([stat |-> "Ok", token |-> token, lp |-> d_100_5])

MaxIndexQuotes == 2

MaxIndexTicks == 2

\* half the timeout of a cached index quote passes
INDEX_STEP == 150

InitIndex ==
    /\ Constructed(Dict([stat |-> "Ok"]))
    /\ last = [op |-> "__init__", returned |-> {}]

\* the Index records among a list of results, each with its own symbol as
\* the symbol it was returned for
ReturnedFor(results) ==
    { [asked |-> results[j].symbol, record |-> results[j]] :
        j \in { i \in 1..Len(results) : results[i].model = "Index" } }

\* a caller runs FlattradeService.get_or_create_index(symbol, token, name)
IndexGetOrCreate ==
    \E symbol \in RecordSymbols, token \in VendorTokens, name \in VendorNames :
        \E r \in {get_or_create_index(World, symbol, token, name)} :
            /\ Commit(r.w)
            /\ last' = [op |-> "get_or_create_index", symbol |-> symbol,
                        returned |-> IF r.obj.model = "None" THEN {}
                                     ELSE {[asked |-> symbol, record |-> r.obj]}]
            /\ UNCHANGED now

\* a caller runs FlattradeService.get_index_by_symbol(symbol)
IndexGetBySymbol ==
    \E symbol \in RecordSymbols :
        \E first \in IF \E x \in Index : x.symbol = symbol
                     THEN FirstByName({x \in Index : x.symbol = symbol}) ELSE {None} :
            \E r \in {get_index_by_symbol(World, symbol, first)} :
                /\ Commit(r.w)
                /\ last' = [op |-> "get_index_by_symbol", symbol |-> symbol,
                            returned |-> IF r.ret.kind = "obj"
                                         THEN {[asked |-> symbol, record |-> r.ret.obj]}
                                         ELSE {}]
                /\ UNCHANGED now

\* the index page of a stored index runs
\* FlattradeService.get_index_quote(index.symbol); the record returned is
\* the index of the quote
IndexGetQuote ==
    /\ Len(IndexQuote) < MaxIndexQuotes
    /\ \E symbol \in {x.symbol : x \in Index}, item \in VendorItems :
        \E r \in {get_index_quote(World, symbol, RespNone, SearchOk(<<item>>),
                                  VendorQuote(item.token), now)} :
            /\ Commit(r.w)
            /\ last' = [op |-> "get_index_quote", symbol |-> symbol,
                        cached |-> cache_get(cache, IndexQuoteKey(symbol), now).model # "None",
                        returned |-> IF r.ret.kind = "obj"
                                     THEN {[asked |-> symbol, record |-> x] :
                                             x \in {y \in r.w.Index : y.token = r.ret.obj.owner}}
                                     ELSE {}]
            /\ UNCHANGED now

\* a caller resolves a query: FlattradeService.search_stocks('bank'), the
\* NSE search listing one of the vendor's items
IndexResolve ==
    \E item \in VendorItems :
        \E r \in {search_stocks(World, q_bank, RespNone,
                                [NothingFound EXCEPT !["NSE"] = SearchOk(<<item>>)],
                                [t \in DiscoveryTokens |-> RespNone], now)} :
            /\ Commit(r.w)
            /\ last' = [op |-> "search_stocks", symbol |-> item.tsym,
                        returned |-> IF r.ret.kind = "list" THEN ReturnedFor(r.ret.items)
                                     ELSE {}]
            /\ UNCHANGED now

IndexTick ==
    /\ now < MaxIndexTicks * INDEX_STEP
    /\ now' = now + INDEX_STEP
    /\ UNCHANGED <<_service_instance, threads, Stock, Index, LiveQuote, IndexQuote, OHLCData, IndexOHLCData,
                   UserSession, is_connected, cache, last>>

NextIndex ==
    IndexGetOrCreate \/ IndexGetBySymbol \/ IndexGetQuote \/ IndexResolve \/ IndexTick

SpecIndex == InitIndex /\ [][NextIndex]_vars

(***************************************************************************)
(* Two candle fetches of one stock and one interval run at the same time,  *)
(* their vendor answers overlapping                                        *)
(***************************************************************************)
\* the entries the two fetches were answered with
RaceAnswers ==
    { <<candle(t_0915), candle(t_0920)>>,
      <<candle(t_0920), candle(t_0925)>>,
      <<candle(t_0920), candle(t_not_a_date), candle(t_0915)>> }

RACE_INTERVAL == 5

\* the stock TCS-EQ is stored, with no candle or with the candle of 09:15
\* an earlier fetch stored; both threads have passed the stock lookup and
\* the vendor call and stand before the loop
InitRace ==
    \E answers \in [1..2 -> RaceAnswers], earlier \in {<<>>, <<candle(t_0915)>>} :
        \E r \in {search_stocks(setup_client(EmptyWorld, Dict([stat |-> "Ok"]), 0).w, q_tcs,
                                RespNone,
                                [NothingFound EXCEPT !["NSE"] = SearchOk(<<item_TCS_EQ>>)],
                                [t \in DiscoveryTokens |-> RespNone], 0)} :
            /\ Stock = r.w.Stock
            /\ Index = r.w.Index
            /\ LiveQuote = r.w.LiveQuote
            /\ IndexQuote = r.w.IndexQuote
            /\ OHLCData = StoreCandles("OHLCData", <<>>, sym_TCS_EQ, RACE_INTERVAL,
                                       earlier, 1, <<>>).tbl
            /\ IndexOHLCData = r.w.IndexOHLCData
            /\ UserSession = r.w.UserSession
            /\ is_connected = r.w.is_connected
            /\ cache = r.w.cache
            /\ now = 0
            /\ threads = [p \in 1..2 |-> NextEntry(LoopThread(answers[p]), 1)]
            /\ _service_instance = 1
            /\ last = [op |-> "get_ohlc_data", symbol |-> sym_TCS_EQ,
                       interval |-> RACE_INTERVAL, stored_before |-> Len(earlier)]

\* the statement of thread p takes effect
Statement(p, r) ==
    /\ OHLCData' = r.tbl
    /\ threads' = [threads EXCEPT ![p] = r.th]
    /\ UNCHANGED <<Stock, Index, LiveQuote, IndexQuote, IndexOHLCData, UserSession,
                   is_connected, cache, now, last, _service_instance>>

\* a thread looks for the candle of its entry
ThreadGet ==
    \E p \in 1..2 :
        /\ threads[p].pc = "get"
        /\ Statement(p, get_or_create_get(threads[p], OHLCData, sym_TCS_EQ, RACE_INTERVAL))

\* a thread inserts the candle it did not find
ThreadCreate ==
    \E p \in 1..2 :
        /\ threads[p].pc = "create"
        /\ Statement(p, get_or_create_create(threads[p], OHLCData, sym_TCS_EQ, RACE_INTERVAL))

\* a thread whose insert was refused looks for the candle again
ThreadGetAgain ==
    \E p \in 1..2 :
        /\ threads[p].pc = "get_again"
        /\ Statement(p, get_or_create_get_again(threads[p], OHLCData, sym_TCS_EQ,
                                                RACE_INTERVAL))

NextRace == ThreadGet \/ ThreadCreate \/ ThreadGetAgain

SpecRace == InitRace /\ [][NextRace]_vars

(***************************************************************************)
(* The instrument store and the candles: get_or_create_stock and           *)
(* get_or_create_index called with symbols and tokens that meet stored     *)
(* ones, and candle fetches answered with other values for a stored moment *)
(***************************************************************************)
StoreStockSymbols == {sym_TCS_EQ, sym_INFY}

StoreStockTokens == {"11536", "532540"}

\* search_exchange: "" stands for None
StoreExchanges == {"", "BSE"}

StoreIndexSymbols == {sym_SENSEX, s_NIFTY}

StoreIndexTokens == {"1", "2"}

\* the entry with other prices and another volume for the time string
candle_revised(time) ==
    [time |-> time, into |-> d_98, inth |-> d_100_5, intl |-> d_98, intc |-> d_99,
     v |-> d_99]

StoreCandleAnswers ==
    { RespList(<<candle(t_0915)>>),
      RespList(<<candle_revised(t_0915), candle(t_0920)>>),
      RespList(<<candle_revised(t_0920)>>) }

MaxStoreCandles == 2

InitStore ==
    /\ Constructed(Dict([stat |-> "Ok"]))
    /\ last = [op |-> "__init__"]

\* the tables as they are before an operation
TablesBefore == [Stock |-> Stock, Index |-> Index, OHLCData |-> OHLCData]

\* a caller runs FlattradeService.get_or_create_stock(symbol, token,
\* search_exchange=search_exchange)
StoreGetOrCreateStock ==
    \E symbol \in StoreStockSymbols, token \in StoreStockTokens,
       search_exchange \in StoreExchanges :
        \E r \in {get_or_create_stock(World, symbol, token, "NSE", search_exchange)} :
            /\ Commit(r.w)
            /\ last' = [op |-> "get_or_create_stock", symbol |-> symbol, token |-> token,
                        exchange |-> IF search_exchange = "" THEN "NSE" ELSE search_exchange,
                        before |-> TablesBefore, obj |-> r.obj]
            /\ UNCHANGED now

\* a caller runs FlattradeService.get_or_create_index(symbol, token)
StoreGetOrCreateIndex ==
    \E symbol \in StoreIndexSymbols, token \in StoreIndexTokens :
        \E r \in {get_or_create_index(World, symbol, token, <<>>)} :
            /\ Commit(r.w)
            /\ last' = [op |-> "get_or_create_index", symbol |-> symbol, token |-> token,
                        before |-> TablesBefore, obj |-> r.obj]
            /\ UNCHANGED now

\* a caller runs FlattradeService.get_ohlc_data(symbol)
StoreGetOhlcData ==
    /\ Len(OHLCData) < MaxStoreCandles
    /\ \E symbol \in {sym_TCS_EQ}, resp \in StoreCandleAnswers :
        \E r \in {get_ohlc_data(World, symbol, RACE_INTERVAL, RespNone, resp, now)} :
            /\ Commit(r.w)
            /\ last' = [op |-> "get_ohlc_data", symbol |-> symbol, resp |-> resp,
                        before |-> TablesBefore, ret |-> r.ret]
            /\ UNCHANGED now

NextStore == StoreGetOrCreateStock \/ StoreGetOrCreateIndex \/ StoreGetOhlcData

SpecStore == InitStore /\ [][NextStore]_vars

(***************************************************************************)
(* One candle fetch answered with the candles of three moments listed in   *)
(* any order, for a stock and for an index                                 *)
(***************************************************************************)
BatchTimes == {t_0915, t_0920, t_0925}

MaxBatchLen == 3

\* the listings of one, two or three different moments, in every order
BatchListings ==
    { s \in UNION { [1..n -> BatchTimes] : n \in 1..MaxBatchLen } :
        \A i, j \in 1..Len(s) : i # j => s[i] # s[j] }

BatchAnswer(s) == RespList([i \in 1..Len(s) |-> candle(s[i])])

\* what an earlier fetch stored: nothing, or the candle of one moment
EarlierAnswers == {RespList(<<>>)} \cup { RespList(<<candle(t)>>) : t \in BatchTimes }

\* the service constructed, the stock TCS-EQ stored by a search, an earlier
\* fetch made for the stock and for the index NIFTY, and a fetch about to be
\* made that the vendor will answer with the listing
InitBatch ==
    \E s \in BatchListings, earlier \in EarlierAnswers :
        \E w \in {get_index_ohlc_data(
                    get_ohlc_data(
                      search_stocks(setup_client(EmptyWorld, Dict([stat |-> "Ok"]), 0).w,
                                    q_tcs, RespNone,
                                    [NothingFound EXCEPT !["NSE"] = SearchOk(<<item_TCS_EQ>>)],
                                    [t \in DiscoveryTokens |-> RespNone], 0).w,
                      sym_TCS_EQ, RACE_INTERVAL, RespNone, earlier, 0).w,
                    s_NIFTY, RACE_INTERVAL, RespNone, earlier, 0).w} :
            /\ Stock = w.Stock
            /\ Index = w.Index
            /\ LiveQuote = w.LiveQuote
            /\ IndexQuote = w.IndexQuote
            /\ OHLCData = w.OHLCData
            /\ IndexOHLCData = w.IndexOHLCData
            /\ UserSession = w.UserSession
            /\ is_connected = w.is_connected
            /\ cache = w.cache
            /\ threads = <<>>
            /\ _service_instance = 1
            /\ now = 0
            /\ last = [op |-> "request", resp |-> BatchAnswer(s)]

\* the fetch is FlattradeService.get_ohlc_data('TCS-EQ')
BatchGetOhlcData ==
    /\ last.op = "request"
    /\ \E r \in {get_ohlc_data(World, sym_TCS_EQ, RACE_INTERVAL, RespNone, last.resp, now)} :
        /\ Commit(r.w)
        /\ last' = [op |-> "get_ohlc_data", resp |-> last.resp, before |-> OHLCData,
                    after |-> r.w.OHLCData, ret |-> r.ret]
        /\ UNCHANGED now

\* the fetch is FlattradeService.get_index_ohlc_data('NIFTY')
BatchGetIndexOhlcData ==
    /\ last.op = "request"
    /\ \E r \in {get_index_ohlc_data(World, s_NIFTY, RACE_INTERVAL, RespNone, last.resp,
                                     now)} :
        /\ Commit(r.w)
        /\ last' = [op |-> "get_index_ohlc_data", resp |-> last.resp,
                    before |-> IndexOHLCData, after |-> r.w.IndexOHLCData, ret |-> r.ret]
        /\ UNCHANGED now

NextBatch == BatchGetOhlcData \/ BatchGetIndexOhlcData

SpecBatch == InitBatch /\ [][NextBatch]_vars

(***************************************************************************)
(* get_flattrade_service called by two request threads of a process that   *)
(* has constructed no service yet                                          *)
(***************************************************************************)
\* _service_instance holds 0 for None, else the number of the
\* FlattradeService it refers to, in the order of construction

\* a thread that enters get_flattrade_service
Caller == [pc |-> "test", constructed |-> 0, ret |-> 0]

\* the answers of set_session to the authentication of a construction
ConstructionAnswers == {Dict([stat |-> "Ok"]), Raise}

InitSingleton ==
    /\ Stock = {} /\ Index = {} /\ UserSession = {}
    /\ LiveQuote = <<>> /\ IndexQuote = <<>> /\ OHLCData = <<>> /\ IndexOHLCData = <<>>
    /\ is_connected = FALSE
    /\ cache = {}
    /\ now = 0
    /\ _service_instance = 0
    /\ threads = [p \in 1..2 |-> Caller]
    /\ last = [op |-> "process start", constructions |-> 0, authentications |-> <<>>]

\* `if _service_instance is None:`
CallerTests ==
    \E p \in 1..2 :
        /\ threads[p].pc = "test"
        /\ threads' = [threads EXCEPT ![p].pc =
                          IF _service_instance = 0 THEN "construct" ELSE "return"]
        /\ UNCHANGED <<Stock, Index, LiveQuote, IndexQuote, OHLCData, IndexOHLCData,
                       UserSession, is_connected, cache, now, last, _service_instance>>

\* `FlattradeService()`: __init__ runs setup_client, which authenticates
\* with the vendor; the new object is not yet bound to the global
CallerConstructs ==
    \E p \in 1..2, auth \in ConstructionAnswers :
        /\ threads[p].pc = "construct"
        /\ \E sc \in {setup_client(World, auth, now)} :
            /\ Stock' = sc.w.Stock
            /\ Index' = sc.w.Index
            /\ LiveQuote' = sc.w.LiveQuote
            /\ IndexQuote' = sc.w.IndexQuote
            /\ OHLCData' = sc.w.OHLCData
            /\ IndexOHLCData' = sc.w.IndexOHLCData
            /\ UserSession' = sc.w.UserSession
            /\ is_connected' = sc.w.is_connected
            /\ cache' = sc.w.cache
        /\ threads' = [threads EXCEPT ![p].pc = "bind",
                                      ![p].constructed = last.constructions + 1]
        /\ last' = [op |-> "FlattradeService()", constructions |-> last.constructions + 1,
                    authentications |-> Append(last.authentications, auth)]
        /\ UNCHANGED <<now, _service_instance>>

\* `_service_instance = ...`: the global is bound to the object the thread
\* constructed
CallerBinds ==
    \E p \in 1..2 :
        /\ threads[p].pc = "bind"
        /\ _service_instance' = threads[p].constructed
        /\ threads' = [threads EXCEPT ![p].pc = "return"]
        /\ UNCHANGED <<Stock, Index, LiveQuote, IndexQuote, OHLCData, IndexOHLCData,
                       UserSession, is_connected, cache, now, last>>

\* `return _service_instance`
CallerReturns ==
    \E p \in 1..2 :
        /\ threads[p].pc = "return"
        /\ threads' = [threads EXCEPT ![p].pc = "returned", ![p].ret = _service_instance]
        /\ UNCHANGED <<Stock, Index, LiveQuote, IndexQuote, OHLCData, IndexOHLCData,
                       UserSession, is_connected, cache, now, last, _service_instance>>

NextSingleton == CallerTests \/ CallerConstructs \/ CallerBinds \/ CallerReturns

SpecSingleton == InitSingleton /\ [][NextSingleton]_vars

(***************************************************************************)
(* Properties of search_stocks, checked under SpecSearch                   *)
(***************************************************************************)
\* the tokens of the entries of a returned list, in order
ReturnedTokens == [i \in 1..Len(last.ret.items) |-> last.ret.items[i].token]

\* C3: the list search_stocks returns never holds two entries with the same
\* vendor token.
C3_ResultTokensDistinct ==
    (last.op = "search_stocks" /\ last.ret.kind = "list") =>
        \A i, j \in 1..Len(ReturnedTokens) :
            i # j => ReturnedTokens[i] # ReturnedTokens[j]

\* C4: no persisted Stock or Index row has a symbol ending in "-BL".
C4_NoBlockDealSymbolPersisted ==
    \A r \in Stock \cup Index : ~endswith(r.symbol, BL_SUFFIX)

\* did the live search of the last call fail entirely: no exchange answered
\* with a non-empty success and index discovery validated no token
LiveSearchFailedEntirely ==
    /\ \A i \in 1..Len(exchanges_to_search) :
            ExchangeResults(exchanges_to_search[i], last.resp[exchanges_to_search[i]]) = <<>>
    /\ \A t \in DiscoveryTokens : ~IsOk(last.quotes[t])

\* C7: a connected service searching "nifty" returns a list holding the ten
\* entries of the static table even when the live search fails entirely.
C7_StaticEntriesSurviveLiveFailure ==
    (/\ last.op = "search_stocks"
     /\ last.search_text = q_nifty
     /\ last.connected
     /\ LiveSearchFailedEntirely) =>
        /\ last.ret.kind = "list"
        /\ \A m \in 1..Len(MAJOR_INDICES) :
              \E i \in 1..Len(last.ret.items) :
                  last.ret.items[i].symbol = MAJOR_INDICES[m].symbol

(***************************************************************************)
(* Properties of the exchange fan-out, checked under SpecFanOut            *)
(***************************************************************************)
\* did the exchange answer the last search with a non-empty success
ExchangeSucceeded(e) ==
    /\ last.resp[e].kind = "dict"
    /\ "stat" \in DOMAIN last.resp[e].d /\ last.resp[e].d.stat = "Ok"
    /\ "values" \in DOMAIN last.resp[e].d /\ last.resp[e].d.values # <<>>

\* the items the exchange answered with, each carrying the exchange's name
TaggedResults(e) ==
    IF ExchangeSucceeded(e)
    THEN [i \in 1..Len(last.resp[e].d.values) |->
            [k \in DOMAIN last.resp[e].d.values[i] \cup {"search_exchange"} |->
                IF k = "search_exchange" THEN e ELSE last.resp[e].d.values[i][k]]]
    ELSE <<>>

UnionOfSuccessfulExchanges ==
    TaggedResults("NSE") \o TaggedResults("BSE") \o TaggedResults("NFO")
        \o TaggedResults("CDS") \o TaggedResults("MCX")

\* the items of the last search's answer that index discovery did not add
FanOutPart ==
    IF last.ret.d.stat = "Ok"
    THEN SelectSeq(last.ret.d.values, LAMBDA item : "discovered" \notin DOMAIN item)
    ELSE <<>>

\* C6: whatever subset of the exchanges fails, the fan-out of a connected
\* client's search_stock yields exactly the results of the exchanges that
\* succeeded, each tagged with its exchange; a failing exchange adds nothing
\* and stops nothing.
C6_FanOutIsUnionOfSuccessfulExchanges ==
    (last.op = "search_stock" /\ last.connected) =>
        /\ last.ret.kind = "dict"
        /\ FanOutPart = UnionOfSuccessfulExchanges

\* C6 happens: the first exchange raised, a later one succeeded, and the
\* later one's results were returned
C6_Witness ==
    /\ last.op = "search_stock" /\ last.connected
    /\ last.resp["NSE"].kind = "raise"
    /\ last.resp["NFO"].kind = "none"
    /\ ExchangeSucceeded("BSE") /\ ExchangeSucceeded("MCX")
    /\ last.ret.kind = "dict" /\ last.ret.d.stat = "Ok"
    /\ Len(last.ret.d.values) >= 2

(***************************************************************************)
(* Properties of the quote fetches, checked under SpecQuotes               *)
(***************************************************************************)
\* the last operation was a quote fetch that asked the vendor
QuoteFetched ==
    /\ last.op \in {"get_live_quote", "get_index_quote"}
    /\ last.calls # <<>>

\* the vendor answered the last quote fetch with a structured success
ReceivedSuccess ==
    /\ QuoteFetched
    /\ last.calls[Len(last.calls)] = "get_quotes"
    /\ last.quote.kind = "dict"
    /\ "stat" \in DOMAIN last.quote.d /\ last.quote.d.stat = "Ok"

\* the number of times the vendor call was made during the last operation
TimesCalled(endpoint) == Len(SelectSeq(last.calls, LAMBDA c : c = endpoint))

\* the field of the last answer as a column of max_digits digits, two of
\* them decimals, takes it; zero when the answer lacks the field
ExpectedDecimal(key, max_digits) ==
    IF key \in DOMAIN last.quote.d
    THEN Quantized(DecimalOf(last.quote.d[key]), max_digits, 2)
    ELSE [ok |-> TRUE, units |-> 0, scale |-> 0]

ExpectedVolume ==
    IF "v" \in DOMAIN last.quote.d THEN IntOf(last.quote.d["v"])
    ELSE [ok |-> TRUE, val |-> 0]

\* every field the answer holds is a number its column takes
NumericFieldsValid ==
    /\ \A k \in {"lp", "o", "h", "l", "c"} : ExpectedDecimal(k, 10).ok
    /\ ExpectedDecimal("prctyp", 5).ok
    /\ ExpectedVolume.ok

\* the last call stored one row, the returned one, after the rows that
\* were there, filled from lp, o, h, l, v, c, prctyp
OneSnapshotAppended ==
    /\ last.ret.kind = "obj"
    /\ LiveQuote = Append(last.before.LiveQuote, last.ret.obj)
    /\ IndexQuote = last.before.IndexQuote
    /\ last.ret.obj.owner = last.symbol
    /\ last.ret.obj.ltp = ExpectedDecimal("lp", 10)
    /\ last.ret.obj.open_price = ExpectedDecimal("o", 10)
    /\ last.ret.obj.high_price = ExpectedDecimal("h", 10)
    /\ last.ret.obj.low_price = ExpectedDecimal("l", 10)
    /\ last.ret.obj.volume = ExpectedVolume
    /\ last.ret.obj.change = ExpectedDecimal("c", 10)
    /\ last.ret.obj.change_percent = ExpectedDecimal("prctyp", 5)

\* C8 as stated, for a stock that is stored: get_live_quote receiving a
\* structured success appends exactly one snapshot row, returns it, fills
\* it from the answer with zero for a missing field, and leaves the
\* existing rows unchanged.
C8_SuccessAppendsOneSnapshot ==
    (last.op = "get_live_quote" /\ last.stored /\ ReceivedSuccess) =>
        OneSnapshotAppended

\* C8, amended: get_live_quote for a stored stock, receiving a structured
\* success whose present numeric fields are numbers their columns take,
\* appends exactly one snapshot row, returns it, fills it from the answer
\* with zero for a missing field, and leaves the existing rows unchanged.
C8_ValidSuccessAppendsOneSnapshot ==
    (last.op = "get_live_quote" /\ last.stored /\ ReceivedSuccess /\ NumericFieldsValid) =>
        OneSnapshotAppended

\* C8 happens: the example answer is stored after an existing row, with
\* ltp 100.5 and volume 1000
C8_Witness ==
    /\ last.op = "get_live_quote" /\ last.stored /\ ReceivedSuccess
    /\ last.quote = quote_example
    /\ Len(last.before.LiveQuote) = 1
    /\ Len(LiveQuote) = 2
    /\ LiveQuote[2].ltp = [ok |-> TRUE, units |-> 1005, scale |-> 1]
    /\ LiveQuote[2].volume = [ok |-> TRUE, val |-> 1000]
    /\ last.ret.kind = "obj" /\ last.ret.obj = LiveQuote[2]

\* C10: a quote fetch (get_live_quote, get_index_quote) that asks the
\* vendor and gets anything but a structured success, an exception
\* included, returns none, creates no snapshot row, raises nothing to its
\* caller and makes no vendor call twice.
C10_FailedQuoteFetchReturnsNone ==
    (QuoteFetched /\ ~ReceivedSuccess) =>
        /\ last.ret.kind = "None"
        /\ LiveQuote = last.before.LiveQuote
        /\ IndexQuote = last.before.IndexQuote
        /\ TimesCalled("get_quotes") <= 1
        /\ TimesCalled("searchscrip") <= 1

\* C10 happens: the vendor's get_quotes raised during a quote fetch made
\* when a snapshot row was stored already, and the fetch returned none
C10_Witness ==
    /\ QuoteFetched /\ ~ReceivedSuccess
    /\ last.quote.kind = "raise"
    /\ TimesCalled("get_quotes") = 1
    /\ Len(last.before.LiveQuote) + Len(last.before.IndexQuote) >= 1
    /\ last.ret.kind = "None"


\* the last operation was a get_index_quote that returned a snapshot
IndexSnapshotReturned == last.op = "get_index_quote" /\ last.ret.kind = "obj"

\* C27 as stated: every get_index_quote call that returns a snapshot has
\* appended exactly one new IndexQuote row, the returned one, also within
\* 5 minutes of a successful fetch of the same symbol.
C27_EverySnapshotIsANewRow ==
    IndexSnapshotReturned => IndexQuote = Append(last.before.IndexQuote, last.ret.obj)

\* C27, amended: index quote snapshots are an append-only log with one row
\* per vendor fetch.  A get_index_quote call that returns a snapshot and
\* was not answered from the cache has appended exactly one IndexQuote row,
\* the returned one; a call answered from the cache (within 5 minutes of a
\* successful fetch under the same cache key) appends nothing and returns
\* a row stored before.  No call changes or removes a stored row.
C27_EveryFetchedSnapshotIsANewRow ==
    /\ last.op = "get_index_quote" =>
          /\ Len(IndexQuote) >= Len(last.before.IndexQuote)
          /\ SubSeq(IndexQuote, 1, Len(last.before.IndexQuote)) = last.before.IndexQuote
    /\ IndexSnapshotReturned =>
          IF last.cached
          THEN /\ IndexQuote = last.before.IndexQuote
               /\ \E j \in 1..Len(IndexQuote) : IndexQuote[j] = last.ret.obj
          ELSE IndexQuote = Append(last.before.IndexQuote, last.ret.obj)

\* C27 happens: a second fetch for an index, made when its cached quote had
\* expired, appended a second row for the index
C27_Witness ==
    /\ IndexSnapshotReturned /\ ~last.cached
    /\ Len(last.before.IndexQuote) = 1
    /\ Len(IndexQuote) = 2
    /\ IndexQuote[1].owner = IndexQuote[2].owner
    /\ IndexQuote[2] = last.ret.obj
(***************************************************************************)
(* Properties of the candle fetches, checked under SpecCandles             *)
(***************************************************************************)
\* the table the last candle fetch writes to
CandleTable == IF last.op = "get_ohlc_data" THEN OHLCData ELSE IndexOHLCData

\* the last operation was a candle fetch that asked the vendor and was
\* answered with a structured success: a list of entries, or a dict whose
\* stat is Ok
ReceivedCandles ==
    /\ last.op \in {"get_ohlc_data", "get_index_ohlc_data"}
    /\ last.fetched
    /\ \/ last.resp.kind = "list" /\ last.resp.items # <<>>
       \/ last.resp.kind = "dict" /\ "stat" \in DOMAIN last.resp.d /\ last.resp.d.stat = "Ok"

\* the entries of the last answer
ReceivedEntries ==
    IF last.resp.kind = "list" THEN last.resp.items
    ELSE IF "data" \in DOMAIN last.resp.d THEN last.resp.d.data ELSE <<>>

\* the moments the entries of the last answer name, those whose time string
\* parses
ParseableTimestamps ==
    { strptime(ReceivedEntries[i].time) : i \in 1..Len(ReceivedEntries) }
        \ { NoTime }

\* the rows of the table for the instrument, the interval and the moment
RowsFor(tbl, owner, interval, timestamp) ==
    { j \in 1..Len(tbl) : /\ tbl[j].owner = owner /\ tbl[j].interval = interval
                          /\ tbl[j].timestamp = timestamp }

\* no (instrument, timestamp, interval) is stored twice
NoCandleStoredTwice(tbl) ==
    \A i, j \in 1..Len(tbl) :
        (/\ tbl[i].owner = tbl[j].owner /\ tbl[i].interval = tbl[j].interval
         /\ tbl[i].timestamp = tbl[j].timestamp) => i = j

\* C1: after any sequence of candle fetches the stored candles of an
\* (instrument, interval) hold exactly one row for each parseable timestamp
\* the vendor's answers named, and no (instrument, timestamp, interval) is
\* stored twice.  Rows are never deleted, so it is stated of each fetch.
C1_OneRowPerParseableTimestamp ==
    /\ NoCandleStoredTwice(OHLCData) /\ NoCandleStoredTwice(IndexOHLCData)
    /\ ReceivedCandles =>
          \A ts \in ParseableTimestamps :
              Cardinality(RowsFor(CandleTable, last.owner, last.interval, ts)) = 1

\* the parseable timestamps of the last answer that were not stored for the
\* instrument and the interval before the call
NewTimestamps ==
    { ts \in ParseableTimestamps :
        RowsFor(last.before, last.owner, last.interval, ts) = {} }

\* C2: a candle fetch answered with a structured success returns the list
\* of exactly the rows it created, as many as the answer has parseable
\* timestamps that were not stored for the instrument and the interval.
C2_ReturnsExactlyTheNewRows ==
    ReceivedCandles =>
        /\ last.ret.kind = "list"
        /\ CandleTable = last.before \o last.ret.items
        /\ Len(last.ret.items) = Cardinality(NewTimestamps)

\* C9: an entry whose time string does not parse is skipped without failing
\* the fetch: the call returns a list, every parseable entry of the batch
\* is stored, and the list holds exactly the rows newly stored.
C9_UnparseableTimeIsSkipped ==
    (/\ ReceivedCandles
     /\ \E i \in 1..Len(ReceivedEntries) : ~strptime(ReceivedEntries[i].time).ok) =>
        /\ last.ret.kind = "list"
        /\ \A ts \in ParseableTimestamps :
              RowsFor(CandleTable, last.owner, last.interval, ts) # {}
        /\ CandleTable = last.before \o last.ret.items

(***************************************************************************)
(* Properties of the views' interval, checked under SpecInterval           *)
(***************************************************************************)
IntervalViews ==
    {"stock_detail", "index_detail", "get_ohlc_data", "refresh_stock_data",
     "refresh_data_async", "refresh_index_data_async"}

\* the candle fetches the last view made
CandleFetchesHanded ==
    SelectSeq(last.handed,
              LAMBDA h : h.fn \in {"get_ohlc_data", "get_index_ohlc_data"})

\* the number the request's interval parameter is, 0 when it is none
RequestedNumber ==
    IF last.raw.given /\ last.raw.text # <<>>
          /\ \A i \in 1..Len(last.raw.text) : IsDigitChar(last.raw.text[i])
    THEN DigitsVal(last.raw.text)
    ELSE 0

\* C5: in each of the six views the interval handed to the candle fetch is
\* one of 1, 3, 5, 15, 30, 60: the requested one when it is one of them,
\* else 5 (parameter absent, no number, or a number outside the set), and
\* the request is not rejected.
C5_IntervalHandedIsValid ==
    (last.op \in IntervalViews /\ last.found) =>
        /\ last.response.kind \in {"render", "json", "redirect"}
        /\ \A i \in 1..Len(CandleFetchesHanded) :
              /\ CandleFetchesHanded[i].interval \in {1, 3, 5, 15, 30, 60}
              /\ CandleFetchesHanded[i].interval =
                    IF RequestedNumber \in {1, 3, 5, 15, 30, 60} THEN RequestedNumber ELSE 5

\* C5 happens: a view given the number 11, outside the set, fetched
\* five-minute candles
C5_Witness ==
    /\ last.op = "refresh_data_async" /\ last.found
    /\ last.raw = Parameter(<<"1", "1">>)
    /\ Len(CandleFetchesHanded) = 1
    /\ CandleFetchesHanded[1].interval = 5

(***************************************************************************)
(* Properties of authentication, checked under SpecAuth                    *)
(***************************************************************************)
\* the vendor's answer to the last set_session was a structured object with
\* status Ok, or the bare boolean true
AnsweredSuccess ==
    \/ /\ last.auth.kind = "dict"
       /\ "stat" \in DOMAIN last.auth.d /\ last.auth.d.stat = "Ok"
    \/ last.auth.kind = "true"

\* C11: an authentication leaves the connected flag true exactly when the
\* vendor answered a structured object with status Ok or the bare boolean
\* true, and false for every other answer and when the call raised.
C11_ConnectedIffSuccessShape ==
    last.attempted => (is_connected <=> AnsweredSuccess)

\* C11 happens: the bare boolean true connected a client that a structured
\* failure had left not connected
C11_Witness ==
    /\ last.attempted /\ last.op # "__init__"
    /\ last.auth = RespTrue
    /\ is_connected

\* the session rows of the user id
SessionsOfUser == { r \in UserSession : r.user_id = USER_ID }

\* C13: after every successful authentication through setup_client there is
\* exactly one session row for the user id, active, holding the current
\* token, expiring 8 hours after the time of the authentication, whether
\* the row was created or was there.
C13_OneFreshSessionAfterSuccess ==
    (last.attempted /\ is_connected) =>
        SessionsOfUser = {[user_id |-> USER_ID, token |-> TOKEN, is_active |-> TRUE,
                           expires_at |-> last.t + 8 * 3600]}

\* C13 happens: a row of an earlier authentication was there, four hours or
\* more passed, and the authentication succeeded
C13_Witness ==
    /\ last.attempted /\ is_connected
    /\ last.t > 0
    /\ last.sessions_before # {}
    /\ \A r \in last.sessions_before : r.expires_at # last.t + 8 * 3600
    /\ Cardinality(SessionsOfUser) = 1

\* C19: after an authentication that failed the session row of the user id
\* is inactive, and a session row is active only if the most recent
\* authentication succeeded and its expiry has not passed.
C19_SessionInactiveAfterFailure ==
    /\ (last.attempted /\ ~AnsweredSuccess) => \A r \in SessionsOfUser : ~r.is_active
    /\ \A r \in SessionsOfUser : r.is_active => r.expires_at > now

\* the operations that fetch quotes or candles or search
DataOperations ==
    {"get_live_quote", "get_index_quote", "get_ohlc_data", "get_index_ohlc_data",
     "search_stocks"}

\* the not-connected outcome: none, the empty list for a search
NotConnectedOutcome ==
    IF last.op = "search_stocks" THEN last.ret = RetList(<<>>) ELSE last.ret = RetNone

\* C12: an operation that begins after a failed authentication fails fast
\* with the not-connected outcome and contacts no vendor endpoint, and an
\* operation reaches the vendor only after a successful authentication.
C12_FailsFastWithoutVendorContact ==
    /\ (last.op \in DataOperations /\ ~last.connected_before) =>
          last.contacted = <<>> /\ NotConnectedOutcome
    /\ (last.op \in DataOperations /\ last.contacted # <<>>) => is_connected
(***************************************************************************)
(* Properties of the freshness guard, checked under SpecFresh              *)
(***************************************************************************)
DetailPages == {"stock_detail", "index_detail"}

\* the interval the last page request asked for
RequestedInterval ==
    IF last.raw.given /\ DigitsVal(last.raw.text) \in {1, 3, 5, 15, 30, 60}
    THEN DigitsVal(last.raw.text) ELSE 5

\* a candle of the instrument and the requested interval was stored, no
\* older than five minutes, when the last page request came
CandleWasFresh ==
    \E j \in 1..Len(last.before.candles) :
        /\ last.before.candles[j].owner = last.owner
        /\ last.before.candles[j].interval = RequestedInterval
        /\ Seconds(last.before.candles[j].timestamp) >= last.t - 5 * 60

\* a quote of the instrument was stored, no older than five minutes
QuoteWasFresh ==
    \E j \in 1..Len(last.before.quotes) :
        /\ last.before.quotes[j].owner = last.owner
        /\ last.before.quotes[j].timestamp >= last.t - 5 * 60

\* C14: a detail page request that finds a candle of the requested interval
\* or a quote of the instrument stored within the last five minutes skips
\* ingestion entirely: it invokes neither the candle fetch nor the quote
\* fetch.
C14_FreshDataSkipsIngestion ==
    (last.op \in DetailPages /\ (CandleWasFresh \/ QuoteWasFresh)) =>
        last.handed = <<>>
(***************************************************************************)
(* Properties of the two search variants, checked under SpecParallel       *)
(***************************************************************************)
SearchVariants == {"search_stocks", "search_with_parallel_exchanges"}

\* the items of the exchanges that answered the last search with a
\* success, those that carry a symbol and a token
LiveItems ==
    { item \in UNION { { last.resp[e].d.values[i] : i \in 1..Len(last.resp[e].d.values) } :
                       e \in { x \in DOMAIN last.resp :
                                 /\ last.resp[x].kind = "dict"
                                 /\ "stat" \in DOMAIN last.resp[x].d
                                 /\ last.resp[x].d.stat = "Ok"
                                 /\ "values" \in DOMAIN last.resp[x].d } } :
        item.tsym # <<>> /\ item.token # "" }

\* an exchange failed and another succeeded
SomeFailedSomeSucceeded ==
    /\ \E e \in DOMAIN last.resp : last.resp[e].kind = "raise"
    /\ LiveItems # {}

\* C16: when some exchange workers of search_with_parallel_exchanges fail
\* or time out and others succeed, the call raises nothing and returns the
\* instruments built from the results of the exchanges that succeeded.
C16_ParallelReturnsSuccessfulExchanges ==
    (/\ last.op = "search_with_parallel_exchanges"
     /\ last.connected
     /\ SomeFailedSomeSucceeded) =>
        /\ last.ret.kind = "list"
        /\ \A item \in LiveItems :
              \E i \in 1..Len(last.ret.items) : last.ret.items[i].symbol = item.tsym

\* the item's instrument type marks an index, or its symbol contains NIFTY
\* in whatever case
MarkedAsIndex(item) ==
    \/ item.instname = "UNDIND"
    \/ \E i \in 1..(Len(item.tsym) - 4) :
          /\ item.tsym[i] \in {"N", "n"}     /\ item.tsym[i + 1] \in {"I", "i"}
          /\ item.tsym[i + 2] \in {"F", "f"} /\ item.tsym[i + 3] \in {"T", "t"}
          /\ item.tsym[i + 4] \in {"Y", "y"}

\* C20: every live-search item is persisted as an Index exactly when its
\* instrument type marks an index or its symbol contains NIFTY in whatever
\* case, and as a Stock otherwise, in search_stocks and in
\* search_with_parallel_exchanges alike.
C20_ClassificationSameInBothVariants ==
    (last.op \in SearchVariants /\ last.connected) =>
        \A item \in LiveItems :
            IF MarkedAsIndex(item)
            THEN /\ \E r \in Index : r.symbol = item.tsym
                 /\ ~\E r \in Stock : r.symbol = item.tsym
            ELSE /\ \E r \in Stock : r.symbol = item.tsym
                 /\ ~\E r \in Index : r.symbol = item.tsym
(***************************************************************************)
(* Properties of the search page, checked under SpecSearchPage             *)
(***************************************************************************)
\* the key the last request's query normalizes to: lower-cased, spaces
\* replaced by underscores
NormalizedKey ==
    <<"s", "e", "a", "r", "c", "h", "_">>
        \o [i \in 1..Len(last.query) |->
              IF last.query[i] = " " THEN "_" ELSE LowerChar(last.query[i])]

\* the view asked the service for a query of the last request's key less
\* than ten minutes before the last request
SearchedWithinTenMinutes ==
    /\ last.before.searched_at[NormalizedKey] # NEVER
    /\ last.t < last.before.searched_at[NormalizedKey] + 10 * 60

\* C15: once the search page has performed a vendor search for a query, a
\* later request within 10 minutes whose query normalizes to the same key
\* is answered with the cached combined list and performs no vendor
\* search.
C15_RepeatedSearchServedFromCache ==
    (last.op = "search_page" /\ SearchedWithinTenMinutes) =>
        /\ last.handed = <<>>
        /\ last.response.kind = "render"
        /\ RetList(last.response.stocks) = last.before.combined[NormalizedKey]

\* C18: the search page completes and renders a result, possibly empty,
\* for every query, whatever the vendor does: the search failing, finding
\* nothing, or the client not connecting.
C18_SearchPageAlwaysRenders ==
    last.op = "search_page" => last.response.kind = "render"
(***************************************************************************)
(* Properties of the index records handed out, checked under SpecIndex     *)
(***************************************************************************)
\* the record carries the token and the name MAJOR_INDICES holds for the
\* symbol
CarriesStaticTokenAndName(symbol, record) ==
    \E i \in 1..Len(MAJOR_INDICES) :
        /\ MAJOR_INDICES[i].symbol = symbol
        /\ record.token = MAJOR_INDICES[i].token
        /\ record.name = MAJOR_INDICES[i].name

\* C17: for every symbol of the static index table, an index record
\* returned by get_or_create_index, get_index_by_symbol, get_index_quote or
\* the resolution of a query carries the static table's token and name,
\* whatever token or name the vendor supplied and whatever index rows
\* exist.
C17_StaticTableWins ==
    \A e \in last.returned :
        InMajorIndices(e.asked) => CarriesStaticTokenAndName(e.asked, e.record)
(***************************************************************************)
(* The order of the list search_stocks returns, checked under SpecSearch   *)
(***************************************************************************)
\* the items a searchscrip answer contributes
AnsweredValues(r) ==
    IF r.kind = "dict" /\ "stat" \in DOMAIN r.d /\ r.d.stat = "Ok" /\ "values" \in DOMAIN r.d
    THEN r.d.values ELSE <<>>

\* the symbols the vendor listed for the last search, exchange after
\* exchange in the order NSE, BSE, NFO, CDS, MCX, followed by those index
\* discovery added
LiveSymbolsInExchangeOrder ==
    With(AnsweredValues(last.resp["NSE"]) \o AnsweredValues(last.resp["BSE"])
            \o AnsweredValues(last.resp["NFO"]) \o AnsweredValues(last.resp["CDS"])
            \o AnsweredValues(last.resp["MCX"])
            \o (IF contains(lower(last.search_text), str_nifty)
                THEN get_major_indices_info(last.quotes, 1) ELSE <<>>),
         LAMBDA items : [i \in 1..Len(items) |-> items[i].tsym])

\* the symbols of the static table the last search's text matches, in the
\* order of the table
StaticSymbolsMatched ==
    With(SelectSeq(MAJOR_INDICES,
                   LAMBDA e : \/ contains(lower(e.symbol), lower(last.search_text))
                              \/ contains(lower(e.name), lower(last.search_text))),
         LAMBDA entries : [i \in 1..Len(entries) |-> entries[i].symbol])

\* a is b with some elements left out
RECURSIVE IsSubsequence(_, _)
IsSubsequence(a, b) ==
    IF a = <<>> THEN TRUE
    ELSE IF b = <<>> THEN FALSE
    ELSE IF a[1] = b[1] THEN IsSubsequence(Tail(a), Tail(b))
    ELSE IsSubsequence(a, Tail(b))

\* the symbols of the returned records from position i to position j
ReturnedSymbols(i, j) ==
    [n \in 1..(j - i + 1) |-> last.ret.items[n + i - 1].symbol]

\* C21: the list search_stocks returns begins with the static-table matches
\* (index records, in the order of the table) and continues with the
\* live-search matches in the order NSE, BSE, NFO, CDS, MCX of the
\* exchanges that listed them.
C21_StaticFirstThenExchangeOrder ==
    (last.op = "search_stocks" /\ last.ret.kind = "list") =>
        \E k \in 0..Len(last.ret.items) :
            /\ \A i \in 1..k : last.ret.items[i].model = "Index"
            /\ IsSubsequence(ReturnedSymbols(1, k), StaticSymbolsMatched)
            /\ IsSubsequence(ReturnedSymbols(k + 1, Len(last.ret.items)),
                             LiveSymbolsInExchangeOrder)

\* C21 happens: a search matched the static table and was listed
\* instruments by NSE and by BSE, and all three kinds were returned
C21_Witness ==
    /\ last.op = "search_stocks" /\ last.ret.kind = "list"
    /\ StaticSymbolsMatched # <<>>
    /\ last.resp["NSE"] = SearchOk(<<item_TCS_BL, item_NIFTYBEES_BL>>)
    /\ last.resp["BSE"] = SearchOk(<<item_TCS_EQ_2>>)
    /\ \E i, j, n \in 1..Len(last.ret.items) :
          /\ i < j /\ j < n
          /\ last.ret.items[i].symbol = s_NIFTY_100
          /\ last.ret.items[j].symbol = sym_NIFTYBEES_BL
          /\ last.ret.items[n].symbol = sym_TCS_EQ
(***************************************************************************)
(* Properties of concurrent candle fetches, checked under SpecRace         *)
(***************************************************************************)
\* both fetches have returned
BothReturned == \A p \in 1..2 : threads[p].pc = "returned"

\* how often the fetch of thread p returned the row
TimesReturned(p, row) ==
    IF threads[p].ret.kind = "list"
    THEN Cardinality({ j \in 1..Len(threads[p].ret.items) : threads[p].ret.items[j] = row })
    ELSE 0

\* C22: two candle fetches of one (instrument, interval) with overlapping
\* answers, interleaved in any way, store no (instrument, timestamp,
\* interval) twice, both return a list (neither fails because the other
\* inserted first), and every candle stored by them is in the list of
\* exactly one of the two.
C22_ConcurrentFetchesAreSafe ==
    /\ NoCandleStoredTwice(OHLCData)
    /\ \A p \in 1..2 : threads[p].pc = "returned" => threads[p].ret.kind = "list"
    /\ BothReturned =>
          \A j \in (last.stored_before + 1)..Len(OHLCData) :
              TimesReturned(1, OHLCData[j]) + TimesReturned(2, OHLCData[j]) = 1

\* C22 happens: both fetches returned, each stored a candle, and one of
\* them had an insert refused because the other had inserted first
C22_Witness ==
    /\ BothReturned
    /\ \E p \in 1..2 : threads[p].lost_race
    /\ \A p \in 1..2 : threads[p].ret.kind = "list" /\ threads[p].ret.items # <<>>
(***************************************************************************)
(* Properties of the instrument store and of stored rows, checked under    *)
(* SpecStore                                                               *)
(***************************************************************************)
\* the last call met a uniqueness constraint: a stock whose symbol was not
\* stored but whose token was, or an index whose token was stored under
\* another symbol
CollidedWithStored ==
    \/ /\ last.op = "get_or_create_stock"
       /\ ~\E s \in last.before.Stock : s.symbol = last.symbol
       /\ \E s \in last.before.Stock : s.token = last.token
    \/ /\ last.op = "get_or_create_index"
       /\ ~InMajorIndices(last.symbol)
       /\ \E x \in last.before.Index : x.token = last.token /\ x.symbol # last.symbol

\* C23: a get_or_create_stock or get_or_create_index that collides with a
\* uniqueness constraint treats the collision as "already exists": it
\* yields the instrument stored before, not an error and not nothing.
C23_CollisionYieldsStoredInstrument ==
    CollidedWithStored =>
        /\ last.obj.model # "None"
        /\ last.obj \in last.before.Stock \cup last.before.Index

\* C24: in every reachable state of the instrument store a symbol maps to
\* one vendor token: no two Stocks and no two Indices share a symbol while
\* having different tokens.
C24_SymbolMapsToOneToken ==
    /\ \A a, b \in Stock : a.symbol = b.symbol => a.token = b.token
    /\ \A a, b \in Index : a.symbol = b.symbol => a.token = b.token

\* the entries of the last candle fetch's answer whose moment was stored
\* for the stock and the interval before the call, with other values
RevisedEntries ==
    { i \in 1..Len(last.resp.items) :
        \E j \in 1..Len(last.before.OHLCData) :
            /\ last.before.OHLCData[j].owner = last.symbol
            /\ last.before.OHLCData[j].interval = RACE_INTERVAL
            /\ last.before.OHLCData[j].timestamp = strptime(last.resp.items[i].time)
            /\ last.before.OHLCData[j].open_price
                   # Quantized(DecimalOf(last.resp.items[i].into), 10, 2) }

\* C25: stored rows are never rewritten.  Every candle and every stock
\* stored before an operation is stored unchanged after it, also when a
\* candle fetch is answered with other values for a stored (instrument,
\* timestamp, interval); and get_or_create_stock for a stored symbol
\* returns the stored record, its token and exchange unchanged, whatever
\* token and exchange it is called with.
C25_StoredRowsNeverRewritten ==
    last.op \in {"get_or_create_stock", "get_or_create_index", "get_ohlc_data"} =>
        /\ Len(OHLCData) >= Len(last.before.OHLCData)
        /\ \A j \in 1..Len(last.before.OHLCData) : OHLCData[j] = last.before.OHLCData[j]
        /\ last.before.Stock \subseteq Stock
        /\ (/\ last.op = "get_or_create_stock"
            /\ \E s \in last.before.Stock : s.symbol = last.symbol) =>
               /\ last.obj \in last.before.Stock
               /\ last.obj.symbol = last.symbol

\* C25 happens: a candle fetch was answered with other values for a stored
\* moment and with a new moment, and returned the one new candle; the stock
\* is stored with the token and the exchange of the call that created it
C25_Witness ==
    /\ last.op = "get_ohlc_data"
    /\ last.ret.kind = "list" /\ Len(last.ret.items) = 1
    /\ RevisedEntries # {}
    /\ \E s \in Stock : s.symbol = sym_TCS_EQ /\ s.token = "532540" /\ s.exchange = "BSE"
(***************************************************************************)
(* The order of the inserts of one candle fetch, checked under SpecBatch   *)
(***************************************************************************)
\* the rows the last fetch inserted, in the order of their insertion
InsertedRows == SubSeq(last.after, Len(last.before) + 1, Len(last.after))

\* C26: within one candle fetch the candle rows are inserted in
\* monotonically non-decreasing timestamp order, for every order in which
\* the vendor's answer lists its candles.
C26_InsertsInTimestampOrder ==
    last.op \in {"get_ohlc_data", "get_index_ohlc_data"} =>
        \A i, j \in 1..Len(InsertedRows) :
            i < j => Seconds(InsertedRows[i].timestamp) <= Seconds(InsertedRows[j].timestamp)

(***************************************************************************)
(* What a candle fetch reports of the rows it stored, checked under        *)
(* SpecCandles                                                             *)
(***************************************************************************)
\* the rows the last candle fetch of SpecCandles created
CreatedRows == SubSeq(CandleTable, Len(last.before) + 1, Len(CandleTable))

\* C29: every candle row a candle fetch persists is reported to its caller:
\* a call of get_ohlc_data or get_index_ohlc_data that created rows returns
\* a list containing all of them, also when a later entry of the batch is
\* malformed.
C29_CreatedRowsAreReturned ==
    (last.op \in {"get_ohlc_data", "get_index_ohlc_data"} /\ CreatedRows # <<>>) =>
        /\ last.ret.kind = "list"
        /\ \A i \in 1..Len(CreatedRows) :
              \E j \in 1..Len(last.ret.items) : last.ret.items[j] = CreatedRows[i]
(***************************************************************************)
(* Properties of get_flattrade_service, checked under SpecSingleton        *)
(***************************************************************************)
\* C28: get_flattrade_service constructs at most one FlattradeService per
\* process, so makes at most one initial authentication, and returns the
\* same instance to every caller, in every interleaving of first calls
\* from different threads.
C28_OneServicePerProcess ==
    /\ last.constructions <= 1
    /\ Len(last.authentications) <= 1
    /\ \A p, q \in 1..2 :
          (threads[p].pc = "returned" /\ threads[q].pc = "returned") =>
              threads[p].ret = threads[q].ret

(***************************************************************************)
(* The candle JSON endpoint                                                *)
(***************************************************************************)
\* the endpoint handled a request for a stored stock and the vendor
\* answered its candle call with a list of candles
VendorCandleCallSucceeded ==
    /\ last.op = "get_ohlc_data"
    /\ last.found
    /\ last.env.candles.kind = "list"

\* C30: the candle JSON endpoint reports success=true whenever the vendor
\* candle call succeeded, also when every returned candle was already
\* stored so that the list of new candles is empty
C30_SuccessWheneverVendorCallSucceeded ==
    VendorCandleCallSucceeded => last.response.success
====
